---- MODULE Spec2Model ----
(***************************************************************************)
(* Transform utilities of mpynode (utilities/transformutils.py and the     *)
(* traversal helpers of utilities/dagutils.py) over a small dag.           *)
(*                                                                         *)
(* Numbers are exact rationals.  An MMatrix is a 4x4 tuple of integers     *)
(* read homogeneously: the matrix it denotes is the tuple divided by its   *)
(* [4][4] entry, and every value is kept in lowest terms, so two matrices  *)
(* are equal exactly when their tuples are.  An MVector <<x, y, z, w>>     *)
(* denotes (x/w, y/w, z/w).  Angles are counted in quarter turns (0..3),   *)
(* the angles at which sine and cosine are integers.                       *)
(***************************************************************************)
EXTENDS Integers, Sequences, FiniteSets, TLC

Abs(x) == IF x < 0 THEN -x ELSE x

RECURSIVE Gcd(_, _)
Gcd(a, b) == IF b = 0 THEN a ELSE Gcd(b, a % b)

Gcd3(a, b, c) == Gcd(Gcd(Abs(a), Abs(b)), Abs(c))

\* integer square root of a perfect square
Sqrt(n) == CHOOSE k \in 0..n : k * k = n

\* ---------------------------------------------------------------- MVector
\* the common factor of a homogeneous tuple, with the sign of its denominator
Common(g, w) == IF w < 0 THEN -Gcd(g, Abs(w)) ELSE Gcd(g, Abs(w))

DivV(v, k) == <<v[1] \div k, v[2] \div k, v[3] \div k, v[4] \div k>>

NormV(v) == DivV(v, Common(Gcd3(v[1], v[2], v[3]), v[4]))

kZeroVector == <<0, 0, 0, 1>>
kOneVector == <<1, 1, 1, 1>>

\* the cross product taken the other way round
CrossSwapped(a, b) ==
    NormV(<<b[2] * a[3] - b[3] * a[2],
            b[3] * a[1] - b[1] * a[3],
            b[1] * a[2] - b[2] * a[1],
            a[4] * b[4]>>)

Cross(a, b) ==
    NormV(<<a[2] * b[3] - a[3] * b[2],
            a[3] * b[1] - a[1] * b[3],
            a[1] * b[2] - a[2] * b[1],
            a[4] * b[4]>>)

Dot(a, b) == a[1] * b[1] + a[2] * b[2] + a[3] * b[3]

VScale(v, k) == NormV(<<v[1] * k, v[2] * k, v[3] * k, v[4]>>)

\* MVector.normalize(): a zero vector is left as it is
Normalize(v) ==
    IF Dot(v, v) = 0 THEN v
    ELSE NormV(<<v[1], v[2], v[3], Sqrt(Dot(v, v))>>)

\* ---------------------------------------------------------------- MMatrix
DivM(m, k) ==
    <<<<m[1][1] \div k, m[1][2] \div k, m[1][3] \div k, 0>>,
      <<m[2][1] \div k, m[2][2] \div k, m[2][3] \div k, 0>>,
      <<m[3][1] \div k, m[3][2] \div k, m[3][3] \div k, 0>>,
      <<m[4][1] \div k, m[4][2] \div k, m[4][3] \div k, m[4][4] \div k>>>>

NormM(m) ==
    DivM(m, Common(Gcd(Gcd(Gcd3(m[1][1], m[1][2], m[1][3]), Gcd3(m[2][1], m[2][2], m[2][3])),
                       Gcd(Gcd3(m[3][1], m[3][2], m[3][3]), Gcd3(m[4][1], m[4][2], m[4][3]))),
                   m[4][4]))

kIdentity == <<<<1, 0, 0, 0>>, <<0, 1, 0, 0>>, <<0, 0, 1, 0>>, <<0, 0, 0, 1>>>>

\* MMatrix * MMatrix, for affine matrices (column 4 is (0, 0, 0, w))
MulRow(r, b) ==
    <<r[1] * b[1][1] + r[2] * b[2][1] + r[3] * b[3][1] + r[4] * b[4][1],
      r[1] * b[1][2] + r[2] * b[2][2] + r[3] * b[3][2] + r[4] * b[4][2],
      r[1] * b[1][3] + r[2] * b[2][3] + r[3] * b[3][3] + r[4] * b[4][3],
      r[4] * b[4][4]>>

Mul(a, b) == NormM(<<MulRow(a[1], b), MulRow(a[2], b), MulRow(a[3], b), MulRow(a[4], b)>>)

\* MVector * MMatrix: the upper-left 3x3 block only, row 4 plays no part
VecMul(v, m) ==
    NormV(<<v[1] * m[1][1] + v[2] * m[2][1] + v[3] * m[3][1],
            v[1] * m[1][2] + v[2] * m[2][2] + v[3] * m[3][2],
            v[1] * m[1][3] + v[2] * m[2][3] + v[3] * m[3][3],
            v[4] * m[4][4]>>)

\* MPoint * MMatrix: a point is moved by the translation row as well
PointMul(p, m) ==
    NormV(<<p[1] * m[1][1] + p[2] * m[2][1] + p[3] * m[3][1] + p[4] * m[4][1],
            p[1] * m[1][2] + p[2] * m[2][2] + p[3] * m[3][2] + p[4] * m[4][2],
            p[1] * m[1][3] + p[2] * m[2][3] + p[3] * m[3][3] + p[4] * m[4][3],
            p[4] * m[4][4]>>)

Det3(m) ==
      m[1][1] * (m[2][2] * m[3][3] - m[2][3] * m[3][2])
    - m[1][2] * (m[2][1] * m[3][3] - m[2][3] * m[3][1])
    + m[1][3] * (m[2][1] * m[3][2] - m[2][2] * m[3][1])

\* cofactor of entry (i, j) of the upper-left 3x3 block
Cof(m, i, j) ==
    LET r1 == IF i = 1 THEN 2 ELSE 1
        r2 == IF i = 3 THEN 2 ELSE 3
        c1 == IF j = 1 THEN 2 ELSE 1
        c2 == IF j = 3 THEN 2 ELSE 3
        minor == m[r1][c1] * m[r2][c2] - m[r1][c2] * m[r2][c1]
    IN  IF (i + j) % 2 = 0 THEN minor ELSE -minor

\* adjugate of the upper-left 3x3 block
Adjugate(m) ==
    <<<<Cof(m, 1, 1), Cof(m, 2, 1), Cof(m, 3, 1)>>,
      <<Cof(m, 1, 2), Cof(m, 2, 2), Cof(m, 3, 2)>>,
      <<Cof(m, 1, 3), Cof(m, 2, 3), Cof(m, 3, 3)>>>>

InverseRows(m, adj, w) ==
    <<<<w * adj[1][1], w * adj[1][2], w * adj[1][3], 0>>,
      <<w * adj[2][1], w * adj[2][2], w * adj[2][3], 0>>,
      <<w * adj[3][1], w * adj[3][2], w * adj[3][3], 0>>,
      <<-(m[4][1] * adj[1][1] + m[4][2] * adj[2][1] + m[4][3] * adj[3][1]),
        -(m[4][1] * adj[1][2] + m[4][2] * adj[2][2] + m[4][3] * adj[3][2]),
        -(m[4][1] * adj[1][3] + m[4][2] * adj[2][3] + m[4][3] * adj[3][3]),
        Det3(m)>>>>

\* MMatrix.inverse() of an affine matrix: adjugate over determinant
Inverse(m) == NormM(InverseRows(m, Adjugate(m), m[4][4]))

\* --------------------------------------------------------- MEulerRotation
Quarters == 0..3
Cos(q) == <<1, 0, -1, 0>>[(q % 4) + 1]
Sin(q) == <<0, 1, 0, -1>>[(q % 4) + 1]

kXYZ == 0
kYZX == 1
kZXY == 2
kXZY == 3
kYXZ == 4
kZYX == 5
RotateOrders == {kXYZ, kYZX, kZXY, kXZY, kYXZ, kZYX}

\* MEulerRotation(x, y, z, order)
MEulerRotation(x, y, z, order) == [x |-> x, y |-> y, z |-> z, order |-> order]
kEulerIdentity == MEulerRotation(0, 0, 0, kXYZ)
Eulers(order) == {MEulerRotation(x, y, z, order) : x \in Quarters, y \in Quarters, z \in Quarters}

\* -------------------------------------------------- matrix construction
\* the value put on the diagonal in place of the fourth row
createTranslateMatrixOnDiagonal(value) ==
    NormM(<<<<value[1], 0, 0, 0>>,
            <<0, value[2], 0, 0>>,
            <<0, 0, value[3], 0>>,
            <<0, 0, 0, value[4]>>>>)

createTranslateMatrix(value) ==
    NormM(<<<<value[4], 0, 0, 0>>,
            <<0, value[4], 0, 0>>,
            <<0, 0, value[4], 0>>,
            <<value[1], value[2], value[3], value[4]>>>>)

\* the x component of the scale written to all three axes
createScaleMatrixUniform(value) ==
    NormM(<<<<value[1], 0, 0, 0>>,
            <<0, value[1], 0, 0>>,
            <<0, 0, value[1], 0>>,
            <<0, 0, 0, value[4]>>>>)

createScaleMatrix(value) ==
    NormM(<<<<value[1], 0, 0, 0>>,
            <<0, value[2], 0, 0>>,
            <<0, 0, value[3], 0>>,
            <<0, 0, 0, value[4]>>>>)

rotateXMatrix(value) ==
    <<<<1, 0, 0, 0>>,
      <<0, Cos(value.x), Sin(value.x), 0>>,
      <<0, -Sin(value.x), Cos(value.x), 0>>,
      <<0, 0, 0, 1>>>>

rotateYMatrix(value) ==
    <<<<Cos(value.y), 0, -Sin(value.y), 0>>,
      <<0, 1, 0, 0>>,
      <<Sin(value.y), 0, Cos(value.y), 0>>,
      <<0, 0, 0, 1>>>>

rotateZMatrix(value) ==
    <<<<Cos(value.z), Sin(value.z), 0, 0>>,
      <<-Sin(value.z), Cos(value.z), 0, 0>>,
      <<0, 0, 1, 0>>,
      <<0, 0, 0, 1>>>>

\* the product x * y * z whatever the rotation order
createRotationMatrixXYZ(value) ==
    Mul(Mul(rotateXMatrix(value), rotateYMatrix(value)), rotateZMatrix(value))

createRotationMatrix(value) ==
    CASE value.order = kXYZ -> Mul(Mul(rotateXMatrix(value), rotateYMatrix(value)), rotateZMatrix(value))
      [] value.order = kYZX -> Mul(Mul(rotateYMatrix(value), rotateZMatrix(value)), rotateXMatrix(value))
      [] value.order = kZXY -> Mul(Mul(rotateZMatrix(value), rotateXMatrix(value)), rotateYMatrix(value))
      [] value.order = kXZY -> Mul(Mul(rotateXMatrix(value), rotateZMatrix(value)), rotateYMatrix(value))
      [] value.order = kYXZ -> Mul(Mul(rotateYMatrix(value), rotateXMatrix(value)), rotateZMatrix(value))
      [] value.order = kZYX -> Mul(Mul(rotateZMatrix(value), rotateYMatrix(value)), rotateXMatrix(value))
      [] OTHER -> "TypeError"

\* ------------------------------------------------ MTransformationMatrix
\* axis turned second and axis turned last under each rotation order
MiddleAxis(order) ==
    CASE order = kXYZ -> "y" [] order = kYZX -> "z" [] order = kZXY -> "x"
      [] order = kXZY -> "z" [] order = kYXZ -> "x" [] order = kZYX -> "y"

LastAxis(order) ==
    CASE order = kXYZ -> "z" [] order = kYZX -> "x" [] order = kZXY -> "y"
      [] order = kXZY -> "y" [] order = kYXZ -> "z" [] order = kZYX -> "x"

\* The triples an euler decomposition returns: the middle angle lies in
\* [-90, 90] degrees and, in gimbal lock, the last angle is zero.
IsPrincipal(e) ==
    /\ e[MiddleAxis(e.order)] \in {0, 1, 3}
    /\ e[MiddleAxis(e.order)] # 0 => e[LastAxis(e.order)] = 0

EulerTable ==
    [order \in RotateOrders |->
        {<<e, createRotationMatrix(e)>> : e \in {f \in Eulers(order) : IsPrincipal(f)}}]

\* length of row i of the upper-left 3x3 block, as a numerator over m[4][4]
RowLength(m, i) == Sqrt(m[i][1] * m[i][1] + m[i][2] * m[i][2] + m[i][3] * m[i][3])

\* MTransformationMatrix(matrix): translation is row 4, scale the row
\* lengths, rotation the rows divided by their lengths
MTransformationMatrix(matrix) ==
    [translation |-> NormV(<<matrix[4][1], matrix[4][2], matrix[4][3], matrix[4][4]>>),
     scale |-> NormV(<<RowLength(matrix, 1), RowLength(matrix, 2), RowLength(matrix, 3),
                       matrix[4][4]>>),
     rotationMatrix |->
        <<<<matrix[1][1] \div RowLength(matrix, 1), matrix[1][2] \div RowLength(matrix, 1),
            matrix[1][3] \div RowLength(matrix, 1), 0>>,
          <<matrix[2][1] \div RowLength(matrix, 2), matrix[2][2] \div RowLength(matrix, 2),
            matrix[2][3] \div RowLength(matrix, 2), 0>>,
          <<matrix[3][1] \div RowLength(matrix, 3), matrix[3][2] \div RowLength(matrix, 3),
            matrix[3][3] \div RowLength(matrix, 3), 0>>,
          <<0, 0, 0, 1>>>>,
     order |-> kXYZ]

\* the decomposition left in the order it was made in
reorderRotationSkipped(tm, order) == tm

\* MTransformationMatrix.reorderRotation(order): same rotation, new order
reorderRotation(tm, order) == [tm EXCEPT !.order = order]

\* MTransformationMatrix.rotateBy(rotation, space): the rotation is added
\* after the one already held
rotateBy(tm, rotationMatrix) ==
    [tm EXCEPT !.rotationMatrix = Mul(tm.rotationMatrix, rotationMatrix)]

\* MTransformationMatrix.rotation(asQuaternion=False)
rotation(tm) == (CHOOSE p \in EulerTable[tm.order] : p[2] = tm.rotationMatrix)[1]

\* MEulerRotation.inverse(), as the matrix it denotes
EulerInverseMatrix(e) == Inverse(createRotationMatrix(e))

\* decomposeMatrix without the call of reorderRotation
decomposeMatrixNoReorder(matrix, rotateOrder) ==
    LET transformationMatrix == MTransformationMatrix(matrix)
    IN  <<transformationMatrix.translation,
          rotation(transformationMatrix),
          transformationMatrix.scale>>

decomposeMatrix(matrix, rotateOrder) ==
    LET transformationMatrix == reorderRotation(MTransformationMatrix(matrix), rotateOrder)
    IN  <<transformationMatrix.translation,
          rotation(transformationMatrix),
          transformationMatrix.scale>>

\* ------------------------------------------------------------------ dag
\* A fixed hierarchy: node 1 is a top-level transform, node 2 its child,
\* nodes 3 and 4 the children of 2, node 5 the child of 3.  Nodes 6 to 9
\* are shapes: a curve and a camera under 4, a mesh under 5, a locator
\* under 3.  0 stands for the world.
Nodes == {1, 2, 3, 4, 5, 6, 7, 8, 9}
parent == <<0, 1, 2, 2, 3, 4, 5, 3, 4>>
childList == <<<<2>>, <<3, 4>>, <<5, 8>>, <<6, 9>>, <<7>>, <<>>, <<>>, <<>>, <<>>>>

\* MFn types a node answers hasFn() for: a joint is also a transform, and
\* every node is a dag node
hasFn(dag, node, apiType) ==
    \/ dag.apiType[node] = apiType
    \/ dag.apiType[node] = "kJoint" /\ apiType = "kTransform"
    \/ apiType = "kDagNode"

\* the children a node still has, of the given type, in child order
RECURSIVE FilterSeq(_, _, _)
FilterSeq(dag, seq, apiType) ==
    IF seq = <<>> THEN <<>>
    ELSE (IF dag.isAlive[Head(seq)] /\ hasFn(dag, Head(seq), apiType)
          THEN <<Head(seq)>> ELSE <<>>)
         \o FilterSeq(dag, Tail(seq), apiType)

\* every child yielded, whatever its type
iterChildrenUnfiltered(dag, dagPath, apiType) == FilterSeq(dag, childList[dagPath], "kDagNode")

iterChildren(dag, dagPath, apiType) == FilterSeq(dag, childList[dagPath], apiType)

\* breadth-first walk: each yielded child is appended to the queue
RECURSIVE iterQueue(_, _, _)
iterQueue(dag, queue, apiType) ==
    IF queue = <<>> THEN <<>>
    ELSE LET found == iterChildren(dag, Head(queue), apiType)
         IN  found \o iterQueue(dag, Tail(queue) \o found, apiType)

iterDescendants(dag, dagPath, apiType) == iterQueue(dag, <<dagPath>>, apiType)

\* a path taken for valid whether or not its node still exists
isValidOnceMade(dag, dagPath) == dagPath \in Nodes

\* MDagPath.isValid(): the path leads to a node that still exists
isValid(dag, dagPath) == dagPath \in Nodes /\ dag.isAlive[dagPath]

\* isinstance(matrix, om.MMatrix): a matrix is four rows, while a caller's
\* plain list of sixteen numbers is not one
isMMatrix(matrix) == Len(matrix) = 4

\* an exception leaves the function: the dag as it is at that moment
raise(dag, exception) == [dag EXCEPT !.error = exception]

\* ------------------------------------------------------ channel access
getRotationOrder(dag, dagPath) == dag.rotateOrder[dagPath]

getEulerRotation(dag, dagPath) ==
    MEulerRotation(dag.rotate[dagPath][1], dag.rotate[dagPath][2], dag.rotate[dagPath][3],
                   getRotationOrder(dag, dagPath))

getJointOrient(dag, dagPath) ==
    IF hasFn(dag, dagPath, "kJoint")
    THEN MEulerRotation(dag.jointOrient[dagPath][1], dag.jointOrient[dagPath][2],
                        dag.jointOrient[dagPath][3], kXYZ)
    ELSE kEulerIdentity

getScale(dag, dagPath) == dag.scale[dagPath]

\* the value of an MVector after the chosen axes took new values
WriteAxes(old, new, wx, wy, wz) ==
    NormV(<<IF wx THEN new[1] * old[4] ELSE old[1] * new[4],
            IF wy THEN new[2] * old[4] ELSE old[2] * new[4],
            IF wz THEN new[3] * old[4] ELSE old[3] * new[4],
            old[4] * new[4]>>)

\* the flag of the whole group alone, the flags of single axes unheeded
SkipGroupOnly(kwargs, group, axis) == group \in kwargs

\* kwargs.get(axis flag, kwargs.get(group flag, False))
Skip(kwargs, group, axis) == (group \o axis) \in kwargs \/ group \in kwargs

\* the write of an axis decided by the skip flags alone
CanSetIgnoringLock(dag, dagPath, kwargs, group, plug, axis) == ~Skip(kwargs, group, axis)

CanSet(dag, dagPath, kwargs, group, plug, axis) ==
    ~Skip(kwargs, group, axis) /\ (plug \o axis) \notin dag.isLocked[dagPath]

\* the 'matrix' plug: scale, then rotate, then joint orient, then translate
Matrix(dag, node) ==
    Mul(Mul(Mul(createScaleMatrix(dag.scale[node]),
                createRotationMatrix(getEulerRotation(dag, node))),
            createRotationMatrix(getJointOrient(dag, node))),
        createTranslateMatrix(dag.translate[node]))

\* MDagPath.inclusiveMatrix() is the world matrix: matrix, then the offset
\* parent matrix, then the parent's world matrix.  MDagPath.exclusiveMatrix()
\* is the world matrix of the parent.
RECURSIVE inclusiveMatrix(_, _)
inclusiveMatrix(dag, node) ==
    IF node = 0 THEN kIdentity
    ELSE Mul(Mul(Matrix(dag, node), dag.offsetParentMatrix[node]),
             inclusiveMatrix(dag, parent[node]))

exclusiveMatrix(dag, node) == inclusiveMatrix(dag, parent[node])

\* the inverse of the node's own world matrix in place of its parent's
inclusiveMatrixInverse(dag, node) == Inverse(inclusiveMatrix(dag, node))

exclusiveMatrixInverse(dag, node) == Inverse(exclusiveMatrix(dag, node))

\* MSpace
kTransform == 1
kWorld == 4

getTranslation(dag, dagPath, space) ==
    IF space = kWorld
    THEN decomposeMatrix(inclusiveMatrix(dag, dagPath), kXYZ)[1]
    ELSE dag.translate[dagPath]

\* the parameters in the signature of getEulerRotation
getEulerRotationParameters == {"dagPath", "context"}

\* a return value, or the exception that left the function
Returned(value) == [error |-> "", value |-> value]
Raised(exception) == [error |-> exception, value |-> <<>>]

\* getTranslation(node, space=space), getEulerRotation(node, space=space),
\* getScale(node): a keyword a function does not declare is a TypeError
decomposeNode(dag, node, space) ==
    IF ~isValid(dag, node) THEN Raised("TypeError")
    ELSE IF "space" \notin getEulerRotationParameters THEN Raised("TypeError")
    ELSE Returned(<<getTranslation(dag, node, space),
                    getEulerRotation(dag, node),
                    getScale(dag, node)>>)

setTranslation(dag, dagPath, value, kwargs) ==
    LET translation == IF "spaceWorld" \in kwargs
                       THEN VecMul(value, exclusiveMatrixInverse(dag, dagPath))
                       ELSE value
    IN  [dag EXCEPT !.translate[dagPath] =
            WriteAxes(@, translation,
                      CanSet(dag, dagPath, kwargs, "skipTranslate", "translate", "X"),
                      CanSet(dag, dagPath, kwargs, "skipTranslate", "translate", "Y"),
                      CanSet(dag, dagPath, kwargs, "skipTranslate", "translate", "Z"))]

resetTranslation(dag, dagPath) == setTranslation(dag, dagPath, kZeroVector, {})

setEulerRotation(dag, dagPath, value, kwargs) ==
    [dag EXCEPT !.rotate[dagPath] =
        <<IF CanSet(dag, dagPath, kwargs, "skipRotate", "rotate", "X") THEN value.x ELSE @[1],
          IF CanSet(dag, dagPath, kwargs, "skipRotate", "rotate", "Y") THEN value.y ELSE @[2],
          IF CanSet(dag, dagPath, kwargs, "skipRotate", "rotate", "Z") THEN value.z ELSE @[3]>>]

resetEulerRotation(dag, dagPath) == setEulerRotation(dag, dagPath, kEulerIdentity, {})

setScale(dag, dagPath, value, kwargs) ==
    [dag EXCEPT !.scale[dagPath] =
        WriteAxes(@, value,
                  CanSet(dag, dagPath, kwargs, "skipScale", "scale", "X"),
                  CanSet(dag, dagPath, kwargs, "skipScale", "scale", "Y"),
                  CanSet(dag, dagPath, kwargs, "skipScale", "scale", "Z"))]

resetScale(dag, dagPath) == setScale(dag, dagPath, kOneVector, {})

\* ------------------------------------------------------------ operations
\* snapshot(dagPath): (handle, world matrix) of every transform descendant
snapshot(dag, dagPath) ==
    LET found == iterDescendants(dag, dagPath, "kTransform")
    IN  [i \in 1..Len(found) |-> <<found[i], inclusiveMatrix(dag, found[i])>>]

RECURSIVE assumeSnapshot(_, _)
RECURSIVE applyTransformMatrix(_, _, _, _)
RECURSIVE assumeSnapshotUnchecked(_, _)

\* every entry applied, the handle of a deleted node as well
assumeSnapshotUnchecked(dag, children) ==
    IF children = <<>> THEN dag
    ELSE assumeSnapshotUnchecked(
             applyTransformMatrix(dag, Head(children)[1],
                 Mul(Head(children)[2], exclusiveMatrixInverse(dag, Head(children)[1])), {}),
             Tail(children))

RECURSIVE assumeSnapshotWith(_, _, _)

\* the restore handing the keywords of the caller to each entry
assumeSnapshotWith(dag, children, kwargs) ==
    IF children = <<>> THEN dag
    ELSE IF ~dag.isAlive[Head(children)[1]]
    THEN assumeSnapshotWith(dag, Tail(children), kwargs)
    ELSE assumeSnapshotWith(
             applyTransformMatrix(dag, Head(children)[1],
                 Mul(Head(children)[2], exclusiveMatrixInverse(dag, Head(children)[1])),
                 kwargs),
             Tail(children), kwargs)

\* applyTransformMatrix with its skip flags kept for the restore of the
\* children
applyTransformMatrixFlagsKept(dag, dagPath, matrix, kwargs) ==
    IF ~isValid(dag, dagPath) \/ ~isMMatrix(matrix) THEN raise(dag, "TypeError")
    ELSE
    LET preserveChildren == "preserveChildren" \in kwargs
        children == IF preserveChildren THEN snapshot(dag, dagPath) ELSE <<>>
        transformationMatrix ==
            reorderRotation(MTransformationMatrix(matrix), getRotationOrder(dag, dagPath))
        dag1 == setTranslation(dag, dagPath, transformationMatrix.translation, kwargs)
        compensated ==
            IF hasFn(dag, dagPath, "kJoint")
            THEN rotateBy(transformationMatrix,
                          EulerInverseMatrix(getJointOrient(dag, dagPath)))
            ELSE transformationMatrix
        dag2 == setEulerRotation(dag1, dagPath, rotation(compensated), kwargs)
        dag3 == setScale(dag2, dagPath, compensated.scale, kwargs)
    IN  IF preserveChildren
        THEN assumeSnapshotWith(dag3, children, kwargs \ {"preserveChildren"})
        ELSE dag3

\* assumeSnapshot(children): entries are applied in list order, each
\* against the parent matrix current at that moment; dead handles are skipped
assumeSnapshot(dag, children) ==
    IF children = <<>> THEN dag
    ELSE LET handle == Head(children)[1]
             matrix == Head(children)[2]
         IN  IF ~dag.isAlive[handle]
             THEN assumeSnapshot(dag, Tail(children))
             ELSE assumeSnapshot(
                     applyTransformMatrix(dag, handle,
                         Mul(matrix, exclusiveMatrixInverse(dag, handle)), {}),
                     Tail(children))

\* applyTransformMatrix(dagPath, matrix, **kwargs)
applyTransformMatrix(dag, dagPath, matrix, kwargs) ==
    IF ~isValid(dag, dagPath) \/ ~isMMatrix(matrix) THEN raise(dag, "TypeError")
    ELSE
    LET preserveChildren == "preserveChildren" \in kwargs
        children == IF preserveChildren THEN snapshot(dag, dagPath) ELSE <<>>
        transformationMatrix ==
            reorderRotation(MTransformationMatrix(matrix), getRotationOrder(dag, dagPath))
        dag1 == setTranslation(dag, dagPath, transformationMatrix.translation, kwargs)
        compensated ==
            IF hasFn(dag, dagPath, "kJoint")
            THEN rotateBy(transformationMatrix,
                          EulerInverseMatrix(getJointOrient(dag, dagPath)))
            ELSE transformationMatrix
        dag2 == setEulerRotation(dag1, dagPath, rotation(compensated), kwargs)
        dag3 == setScale(dag2, dagPath, compensated.scale, kwargs)
    IN  IF preserveChildren THEN assumeSnapshot(dag3, children) ELSE dag3

\* copyTransform(source, target, **kwargs).  The pivots of the modelled
\* nodes are at the origin, so the four pivot matrices of the composition
\* are the identity.  The argument check raises only when both paths are
\* invalid; MFnTransform refuses an invalid source; the parent matrix asked
\* of an invalid target is taken to be returned rather than refused, which
\* leaves the matter to the check of applyTransformMatrix.
copyTransform(dag, copyFrom, copyTo, kwargs) ==
    IF ~isValid(dag, copyFrom) /\ ~isValid(dag, copyTo) THEN raise(dag, "TypeError")
    ELSE IF ~isValid(dag, copyFrom) THEN raise(dag, "RuntimeError")
    ELSE
    LET translateMatrix == createTranslateMatrix(dag.translate[copyFrom])
        rotationMatrix == createRotationMatrix(getEulerRotation(dag, copyFrom))
        jointOrientMatrix ==
            IF hasFn(dag, copyFrom, "kJoint")
            THEN createRotationMatrix(getJointOrient(dag, copyFrom))
            ELSE kIdentity
        scaleMatrix == createScaleMatrix(dag.scale[copyFrom])
        parentMatrix == exclusiveMatrix(dag, copyFrom)
        parentInverseMatrix == IF isValid(dag, copyTo)
                               THEN exclusiveMatrixInverse(dag, copyTo)
                               ELSE kIdentity
        matrix == Mul(Mul(Mul(scaleMatrix, rotationMatrix), jointOrientMatrix), translateMatrix)
        worldMatrix == Mul(matrix, parentMatrix)
        newMatrix == Mul(worldMatrix, parentInverseMatrix)
    IN  applyTransformMatrix(dag, copyTo, newMatrix, kwargs)

\* controlPoints[i] *= scaleMatrix, for every point of the array
ScalePoints(controlPoints, scaleMatrix) ==
    [i \in 1..Len(controlPoints) |-> PointMul(controlPoints[i], scaleMatrix)]

\* one turn of the loop of freezeScale: the branch taken for the child.
\* MFnNurbsCurve refuses a surface; the warning of the last branch formats
\* child.apiTypStr, an attribute no MObject has.
freezeScaleChild(dag, child, scaleMatrix) ==
    IF hasFn(dag, child, "kTransform")
    THEN setTranslation(dag, child, VecMul(getTranslation(dag, child, kTransform), scaleMatrix), {})
    ELSE IF hasFn(dag, child, "kNurbsCurve")
    THEN [dag EXCEPT !.controlPoints[child] = ScalePoints(@, scaleMatrix)]
    ELSE IF hasFn(dag, child, "kNurbsSurface")
    THEN raise(dag, "RuntimeError")
    ELSE IF hasFn(dag, child, "kLocator")
    THEN [dag EXCEPT !.localPosition[child] = VecMul(@, scaleMatrix),
                     !.localScale[child] = VecMul(@, scaleMatrix)]
    ELSE IF hasFn(dag, child, "kMesh")
    THEN [dag EXCEPT !.controlPoints[child] = ScalePoints(@, scaleMatrix)]
    ELSE raise(dag, "AttributeError")

\* the loop of freezeScale over the descendants found, left at the first
\* exception
RECURSIVE freezeScaleLoop(_, _, _)
freezeScaleLoop(dag, found, scaleMatrix) ==
    IF found = <<>> \/ dag.error # "" THEN dag
    ELSE freezeScaleLoop(freezeScaleChild(dag, Head(found), scaleMatrix),
                         Tail(found), scaleMatrix)

\* resetScale(dagPath), the last statement of freezeScale, reached when the
\* loop raised nothing
freezeScaleEnd(dag, dagPath) == IF dag.error # "" THEN dag ELSE resetScale(dag, dagPath)

\* freezeScale(dagPath, scale): iterDescendants is called with its default
\* apiType, so only transform descendants are visited
freezeScale(dag, dagPath, scale) ==
    freezeScaleEnd(
        freezeScaleLoop(dag, iterDescendants(dag, dagPath, "kTransform"),
                        createScaleMatrix(scale)),
        dagPath)

\* the two parts multiplied the other way round
composeLocalMatrixSwapped(rotateMatrix, translateMatrix) == Mul(translateMatrix, rotateMatrix)

\* freezeTransform: the local matrix composed from the two parts taken off
\* the channels
composeLocalMatrix(rotateMatrix, translateMatrix) == Mul(rotateMatrix, translateMatrix)

\* freezeTransform: the matrix committed to the offsetParentMatrix plug
compoundOffset(matrix, offsetParentMatrix) ==
    IF offsetParentMatrix # kIdentity THEN Mul(matrix, offsetParentMatrix) ELSE matrix

freezeTransform(dag, dagPath, includeTranslate, includeRotate, includeScale) ==
    IF Matrix(dag, dagPath) = kIdentity THEN dag
    ELSE
    LET translateMatrix == IF includeTranslate
                           THEN createTranslateMatrix(getTranslation(dag, dagPath, kTransform))
                           ELSE kIdentity
        dag1 == IF includeTranslate THEN resetTranslation(dag, dagPath) ELSE dag
        rotateMatrix == IF includeRotate
                        THEN createRotationMatrix(getEulerRotation(dag1, dagPath))
                        ELSE kIdentity
        dag2 == IF includeRotate THEN resetEulerRotation(dag1, dagPath) ELSE dag1
        dag3 == IF includeScale THEN freezeScale(dag2, dagPath, getScale(dag2, dagPath)) ELSE dag2
        matrix == composeLocalMatrix(rotateMatrix, translateMatrix)
    IN  [dag3 EXCEPT !.offsetParentMatrix[dagPath] =
            compoundOffset(matrix, dag3.offsetParentMatrix[dagPath])]

unfreezeTransform(dag, dagPath) ==
    IF dag.offsetParentMatrix[dagPath] = kIdentity THEN dag
    ELSE
    LET matrix == Matrix(dag, dagPath)
        offsetParentMatrix == IF matrix # kIdentity
                              THEN Mul(dag.offsetParentMatrix[dagPath], matrix)
                              ELSE dag.offsetParentMatrix[dagPath]
        trs == decomposeMatrix(offsetParentMatrix, getRotationOrder(dag, dagPath))
        dag1 == setTranslation(dag, dagPath, trs[1], {})
        dag2 == setEulerRotation(dag1, dagPath, trs[2], {})
        dag3 == setScale(dag2, dagPath, trs[3], {})
    IN  [dag3 EXCEPT !.offsetParentMatrix[dagPath] = kIdentity]

\* dagutils.deleteNode: the node goes, and its descendants with it
deleteNode(dag, dependNode) ==
    [dag EXCEPT !.isAlive =
        [n \in Nodes |->
            IF n = dependNode \/ n \in {iterDescendants(dag, dependNode, "kDagNode")[i] :
                                        i \in 1..Len(iterDescendants(dag, dependNode, "kDagNode"))}
            THEN FALSE ELSE @[n]]]

\* the axis rows as they are, without the three normalize() calls
AimRowsRaw(xAxis, yAxis, zAxis, startPoint) ==
    NormM(<<<<xAxis[1] * yAxis[4] * zAxis[4] * startPoint[4],
              xAxis[2] * yAxis[4] * zAxis[4] * startPoint[4],
              xAxis[3] * yAxis[4] * zAxis[4] * startPoint[4], 0>>,
            <<yAxis[1] * xAxis[4] * zAxis[4] * startPoint[4],
              yAxis[2] * xAxis[4] * zAxis[4] * startPoint[4],
              yAxis[3] * xAxis[4] * zAxis[4] * startPoint[4], 0>>,
            <<zAxis[1] * xAxis[4] * yAxis[4] * startPoint[4],
              zAxis[2] * xAxis[4] * yAxis[4] * startPoint[4],
              zAxis[3] * xAxis[4] * yAxis[4] * startPoint[4], 0>>,
            <<startPoint[1] * xAxis[4] * yAxis[4] * zAxis[4],
              startPoint[2] * xAxis[4] * yAxis[4] * zAxis[4],
              startPoint[3] * xAxis[4] * yAxis[4] * zAxis[4],
              xAxis[4] * yAxis[4] * zAxis[4] * startPoint[4]>>>>)

\* createAimMatrix: the three normalised axis rows and the start point,
\* brought to a common denominator
AimRows(xAxis, yAxis, zAxis, startPoint) ==
    LET x == Normalize(xAxis)
        y == Normalize(yAxis)
        z == Normalize(zAxis)
        w == x[4] * y[4] * z[4] * startPoint[4]
    IN  NormM(<<<<x[1] * (w \div x[4]), x[2] * (w \div x[4]), x[3] * (w \div x[4]), 0>>,
                <<y[1] * (w \div y[4]), y[2] * (w \div y[4]), y[3] * (w \div y[4]), 0>>,
                <<z[1] * (w \div z[4]), z[2] * (w \div z[4]), z[3] * (w \div z[4]), 0>>,
                <<startPoint[1] * (w \div startPoint[4]), startPoint[2] * (w \div startPoint[4]),
                  startPoint[3] * (w \div startPoint[4]), w>>>>)

createAimMatrix(forwardAxis, forwardVector, upAxis, upVector, startPoint, forwardAxisSign, upAxisSign) ==
    LET forward == VScale(forwardVector, forwardAxisSign)
        up == VScale(upVector, upAxisSign)
    IN  CASE forwardAxis = 0 /\ upAxis = 1 ->
                LET zAxis == Cross(forward, up)
                IN  AimRows(forward, Cross(zAxis, forward), zAxis, startPoint)
          [] forwardAxis = 0 /\ upAxis = 2 ->
                LET yAxis == Cross(up, forward)
                IN  AimRows(forward, yAxis, Cross(forward, yAxis), startPoint)
          [] forwardAxis = 1 /\ upAxis = 0 ->
                LET zAxis == Cross(up, forward)
                IN  AimRows(Cross(forward, zAxis), forward, zAxis, startPoint)
          [] forwardAxis = 1 /\ upAxis = 2 ->
                LET xAxis == Cross(forward, up)
                IN  AimRows(xAxis, forward, Cross(xAxis, forward), startPoint)
          [] forwardAxis = 2 /\ upAxis = 0 ->
                LET yAxis == Cross(forward, up)
                IN  AimRows(Cross(yAxis, forward), yAxis, forward, startPoint)
          [] forwardAxis = 2 /\ upAxis = 1 ->
                LET xAxis == Cross(up, forward)
                IN  AimRows(xAxis, Cross(forward, xAxis), forward, startPoint)
          [] OTHER -> "TypeError"

\* ---------------------------------------------------------------- state
VARIABLES
    scene,   \* the dag: the plugs of every node
    hist,    \* the calls made, latest first, each with the dag it started from
    snap,    \* the list returned by the last snapshot() call
    steps,   \* number of calls made
    args,    \* arguments of the last call of a matrix function
    ret      \* what that call returned

vars == <<scene, hist, snap, steps, args, ret>>

MaxCalls == 2

\* channel values a caller sets; each pose is [t, r, s]
Pose(t, r, s) == [t |-> t, r |-> r, s |-> s]

Poses ==
    {Pose(<<0, 0, 0, 1>>, <<0, 0, 0>>, <<1, 1, 1, 1>>),
     Pose(<<1, 2, 3, 1>>, <<0, 0, 0>>, <<2, 2, 2, 1>>),
     Pose(<<1, 0, 0, 1>>, <<0, 0, 1>>, <<1, 1, 1, 1>>),
     Pose(<<0, 1, 0, 1>>, <<1, 0, 1>>, <<2, 1, 1, 1>>),
     Pose(<<0, 0, 0, 1>>, <<0, 2, 0>>, <<1, 1, 1, 1>>),
     Pose(<<1, 2, 3, 1>>, <<1, 1, 0>>, <<1, 2, 3, 1>>)}

\* offset parent matrices freezeTransform leaves behind: the identity of a
\* node never frozen, and rotate * translate of a frozen one
Offsets ==
    {kIdentity,
     Mul(createRotationMatrix(MEulerRotation(0, 0, 1, kXYZ)),
         createTranslateMatrix(<<1, 0, 0, 1>>))}

\* The shapes carry no transform of their own: their channels stay at the
\* identity, so that the world matrix of a shape is that of its transform.
BaseScene ==
    [apiType |-> <<"kTransform", "kTransform", "kJoint", "kTransform", "kTransform",
                   "kNurbsCurve", "kMesh", "kLocator", "kCamera">>,
     translate |-> <<<<0, 1, 0, 1>>, <<1, 0, 0, 1>>, <<0, 1, 0, 1>>, <<1, 1, 0, 1>>,
                     <<1, 0, 0, 1>>, kZeroVector, kZeroVector, kZeroVector, kZeroVector>>,
     rotate |-> <<<<0, 0, 1>>, <<0, 0, 0>>, <<1, 0, 0>>, <<0, 0, 0>>, <<0, 1, 0>>,
                  <<0, 0, 0>>, <<0, 0, 0>>, <<0, 0, 0>>, <<0, 0, 0>>>>,
     scale |-> <<<<2, 1, 1, 1>>, <<1, 1, 1, 1>>, <<1, 1, 1, 1>>, <<1, 1, 1, 1>>,
                 <<1, 2, 1, 1>>, kOneVector, kOneVector, kOneVector, kOneVector>>,
     rotateOrder |-> <<kXYZ, kXYZ, kXYZ, kXYZ, kXYZ, kXYZ, kXYZ, kXYZ, kXYZ>>,
     jointOrient |-> <<<<0, 0, 0>>, <<0, 0, 0>>, <<0, 0, 1>>, <<0, 0, 0>>, <<0, 0, 0>>,
                       <<0, 0, 0>>, <<0, 0, 0>>, <<0, 0, 0>>, <<0, 0, 0>>>>,
     offsetParentMatrix |-> <<kIdentity, kIdentity, kIdentity, kIdentity, kIdentity,
                              kIdentity, kIdentity, kIdentity, kIdentity>>,
     isLocked |-> <<{}, {}, {}, {}, {}, {}, {}, {}, {}>>,
     isAlive |-> <<TRUE, TRUE, TRUE, TRUE, TRUE, TRUE, TRUE, TRUE, TRUE>>,
     controlPoints |-> <<<<>>, <<>>, <<>>, <<>>, <<>>,
                         <<<<1, 0, 0, 1>>, <<0, 1, 1, 1>>>>,
                         <<<<1, 1, 0, 1>>, <<0, 0, 1, 1>>>>, <<>>, <<>>>>,
     localPosition |-> <<kZeroVector, kZeroVector, kZeroVector, kZeroVector, kZeroVector,
                         kZeroVector, kZeroVector, <<1, 1, 0, 1>>, kZeroVector>>,
     localScale |-> <<kOneVector, kOneVector, kOneVector, kOneVector, kOneVector,
                      kOneVector, kOneVector, kOneVector, kOneVector>>,
     warnings |-> <<>>,
     error |-> ""]

WithPose(dag, node, pose) ==
    [dag EXCEPT !.translate[node] = pose.t, !.rotate[node] = pose.r, !.scale[node] = pose.s]

Call(op, a, before, raised) == [op |-> op, args |-> a, before |-> before, raised |-> raised]

\* the two latest calls are kept
Push(c) == IF hist = <<>> THEN <<c>> ELSE <<c, hist[1]>>

\* ------------------------------------------------- freeze and unfreeze
\* node 2 has a parent and descendants, node 4 has no descendant
FreezeNodes == {2, 4}

InitFreeze ==
    /\ scene \in {[WithPose(WithPose(BaseScene, 2, pose), 4, pose) EXCEPT
                      !.rotateOrder[2] = order, !.offsetParentMatrix[2] = offset,
                      !.rotateOrder[4] = order, !.offsetParentMatrix[4] = offset] :
                  pose \in Poses, order \in RotateOrders, offset \in Offsets}
    /\ hist = <<>>
    /\ snap = <<>>
    /\ steps = 0
    /\ args = <<>>
    /\ ret = <<>>

\* a caller works on one node: every call is on the node of the call before
SameNode(dagPath) == IF hist = <<>> THEN TRUE ELSE hist[1].args[1] = dagPath

FreezeTransform(dagPath, includeTranslate, includeRotate, includeScale) ==
    /\ steps < MaxCalls
    /\ SameNode(dagPath)
    /\ scene' = IF isValid(scene, dagPath)
                THEN freezeTransform(scene, dagPath, includeTranslate, includeRotate, includeScale)
                ELSE scene
    /\ hist' = Push(Call("freezeTransform",
                         <<dagPath, includeTranslate, includeRotate, includeScale>>,
                         scene, ~isValid(scene, dagPath)))
    /\ steps' = steps + 1
    /\ UNCHANGED <<snap, args, ret>>

UnfreezeTransform(dagPath) ==
    /\ steps < MaxCalls
    /\ SameNode(dagPath)
    /\ scene' = IF isValid(scene, dagPath) THEN unfreezeTransform(scene, dagPath) ELSE scene
    /\ hist' = Push(Call("unfreezeTransform", <<dagPath>>, scene, ~isValid(scene, dagPath)))
    /\ steps' = steps + 1
    /\ UNCHANGED <<snap, args, ret>>

NextFreeze ==
    \/ \E dagPath \in FreezeNodes, includeTranslate \in BOOLEAN, includeRotate \in BOOLEAN,
          includeScale \in BOOLEAN :
          FreezeTransform(dagPath, includeTranslate, includeRotate, includeScale)
    \/ \E dagPath \in FreezeNodes : UnfreezeTransform(dagPath)

SpecFreeze == InitFreeze /\ [][NextFreeze]_vars

\* the latest call, when it was the given operation and did not raise
Last(op) == hist # <<>> /\ hist[1].op = op /\ ~hist[1].raised

Unlocked(dag, node) == dag.isLocked[node] = {}

NoJointOrient(dag, node) == createRotationMatrix(getJointOrient(dag, node)) = kIdentity

Descendants(dag, node) ==
    LET found == iterDescendants(dag, node, "kTransform")
    IN  {found[i] : i \in 1..Len(found)}

\* the rotation a node's rotate channels denote under its rotation order
RotateMatrixOf(dag, node) == createRotationMatrix(getEulerRotation(dag, node))

\* the latest call was freezeTransform(node, T, R, S) on a node with no
\* locked channel and no joint orientation
Froze(node, includeTranslate, includeRotate, includeScale) ==
    /\ Last("freezeTransform")
    /\ hist[1].args = <<node, includeTranslate, includeRotate, includeScale>>
    /\ Unlocked(hist[1].before, node)
    /\ NoJointOrient(hist[1].before, node)

\* C1: freezeTransform(node, includeTranslate=True, includeRotate=True,
\* includeScale=False) leaves the world matrix of the node as it was before
\* the call, whatever its translate, rotate, scale, rotation order and
\* offset parent matrix were.
C1_FreezeKeepsWorldMatrix ==
    \A node \in FreezeNodes :
        Froze(node, TRUE, TRUE, FALSE) =>
            inclusiveMatrix(scene, node) = inclusiveMatrix(hist[1].before, node)

\* a freeze of translate and rotate that moved a rotated, translated, scaled
\* pose under a non-XYZ order onto an offset that was already there
C1_Witness ==
    \E node \in FreezeNodes :
        /\ Froze(node, TRUE, TRUE, FALSE)
        /\ hist[1].before.offsetParentMatrix[node] # kIdentity
        /\ hist[1].before.translate[node] # kZeroVector
        /\ RotateMatrixOf(hist[1].before, node) # kIdentity
        /\ hist[1].before.scale[node] # kOneVector
        /\ hist[1].before.rotateOrder[node] = kZYX
        /\ scene.translate[node] = kZeroVector
        /\ scene.offsetParentMatrix[node] # hist[1].before.offsetParentMatrix[node]

\* C2: for every combination of the three flags freezeTransform leaves the
\* world matrix of the node and of each of its descendants as it was.
C2_FreezeKeepsWorldPose ==
    \A node \in FreezeNodes :
        \A includeTranslate \in BOOLEAN, includeRotate \in BOOLEAN, includeScale \in BOOLEAN :
            Froze(node, includeTranslate, includeRotate, includeScale) =>
                \A m \in {node} \cup Descendants(scene, node) :
                    inclusiveMatrix(scene, m) = inclusiveMatrix(hist[1].before, m)

\* the latest two calls were freezeTransform(node, T, R, S) from an identity
\* offset parent matrix and then unfreezeTransform(node)
FrozeThenUnfroze(node, includeTranslate, includeRotate, includeScale) ==
    /\ Last("unfreezeTransform")
    /\ hist[1].args = <<node>>
    /\ Len(hist) = 2
    /\ hist[2].op = "freezeTransform"
    /\ ~hist[2].raised
    /\ hist[2].args = <<node, includeTranslate, includeRotate, includeScale>>
    /\ hist[2].before.offsetParentMatrix[node] = kIdentity
    /\ Unlocked(hist[2].before, node)
    /\ NoJointOrient(hist[2].before, node)

\* translate is back to its value, rotate to an euler triple of the same
\* rotation (euler triples alias: (0, 180, 0) and (180, 0, 180) under XYZ)
TranslateRotateBack(node) ==
    /\ scene.translate[node] = hist[2].before.translate[node]
    /\ RotateMatrixOf(scene, node) = RotateMatrixOf(hist[2].before, node)

\* C3: from an identity offset parent matrix and any translate, rotate and
\* scale, freezeTransform(node, includeScale=False) and then
\* unfreezeTransform(node) leave translate and rotate at their first values.
C3_FreezeUnfreezeRoundTrip ==
    \A node \in FreezeNodes :
        FrozeThenUnfroze(node, TRUE, TRUE, FALSE) => TranslateRotateBack(node)

InitSnapshot ==
    /\ scene \in {[BaseScene EXCEPT
                      !.offsetParentMatrix[3] = offset3, !.offsetParentMatrix[5] = offset5,
                      !.rotateOrder[3] = order, !.rotateOrder[5] = order] :
                  offset3 \in Offsets, offset5 \in Offsets, order \in {kXYZ, kZXY, kYXZ}}
    /\ hist = <<>>
    /\ snap = <<>>
    /\ steps = 0
    /\ args = <<>>
    /\ ret = <<>>

Snapshot(dagPath) ==
    /\ hist = <<>>
    /\ snap' = snapshot(scene, dagPath)
    /\ hist' = Push(Call("snapshot", <<dagPath>>, scene, FALSE))
    /\ steps' = steps + 1
    /\ UNCHANGED <<scene, args, ret>>

\* between the snapshot and its restore
Capturing == IF hist = <<>> THEN FALSE ELSE hist[1].op # "assumeSnapshot"

SetTranslation(dagPath, value) ==
    /\ steps < MaxCalls
    /\ Capturing
    /\ scene' = IF isValid(scene, dagPath) THEN setTranslation(scene, dagPath, value, {}) ELSE scene
    /\ hist' = Push(Call("setTranslation", <<dagPath, value>>, scene, ~isValid(scene, dagPath)))
    /\ steps' = steps + 1
    /\ UNCHANGED <<snap, args, ret>>

SetEulerRotation(dagPath, value) ==
    /\ steps < MaxCalls
    /\ Capturing
    /\ scene' = IF isValid(scene, dagPath)
                THEN setEulerRotation(scene, dagPath,
                         MEulerRotation(value[1], value[2], value[3],
                                        getRotationOrder(scene, dagPath)), {})
                ELSE scene
    /\ hist' = Push(Call("setEulerRotation", <<dagPath, value>>, scene, ~isValid(scene, dagPath)))
    /\ steps' = steps + 1
    /\ UNCHANGED <<snap, args, ret>>

SetScale(dagPath, value) ==
    /\ steps < MaxCalls
    /\ Capturing
    /\ scene' = IF isValid(scene, dagPath) THEN setScale(scene, dagPath, value, {}) ELSE scene
    /\ hist' = Push(Call("setScale", <<dagPath, value>>, scene, ~isValid(scene, dagPath)))
    /\ steps' = steps + 1
    /\ UNCHANGED <<snap, args, ret>>

DeleteNode(dependNode) ==
    /\ steps < MaxCalls
    /\ Capturing
    /\ scene.isAlive[dependNode]
    /\ scene' = deleteNode(scene, dependNode)
    /\ hist' = Push(Call("deleteNode", <<dependNode>>, scene, FALSE))
    /\ steps' = steps + 1
    /\ UNCHANGED <<snap, args, ret>>

\* the orders a list of three entries can be put in
Reorderings ==
    {p \in [1..3 -> 1..3] : \A i, j \in 1..3 : p[i] = p[j] => i = j}

Reordered(seq, order) == [i \in 1..Len(seq) |-> seq[order[i]]]

\* assumeSnapshot is called once, on the list snapshot() returned or on a
\* reordering of it
AssumeSnapshot(order) ==
    /\ Capturing
    /\ scene' = assumeSnapshot(scene, Reordered(snap, order))
    /\ hist' = Push(Call("assumeSnapshot", <<Reordered(snap, order)>>, scene, scene'.error # ""))
    /\ steps' = steps + 1
    /\ UNCHANGED <<snap, args, ret>>

NextSnapshot ==
    \/ Snapshot(2)
    \/ \E dagPath \in {1, 2, 3} : SetTranslation(dagPath, <<0, 2, 0, 1>>)
    \/ \E dagPath \in {1, 2, 3} : SetEulerRotation(dagPath, <<0, 1, 0>>)
    \/ \E dagPath \in {1, 2, 3} : SetScale(dagPath, <<1, 2, 1, 1>>)
    \/ \E dependNode \in {3, 4, 5} : DeleteNode(dependNode)
    \/ \E order \in Reorderings : AssumeSnapshot(order)

SpecSnapshot == InitSnapshot /\ [][NextSnapshot]_vars

\* the latest call was assumeSnapshot on the list in the order snapshot()
\* returned it
RestoredInOrder == Last("assumeSnapshot") /\ hist[1].args[1] = snap

\* when assumeSnapshot was called, a change made after the snapshot had
\* taken a captured node off its captured world matrix
Moved ==
    \E i \in 1..Len(snap) :
        /\ hist[1].before.isAlive[snap[i][1]]
        /\ inclusiveMatrix(hist[1].before, snap[i][1]) # snap[i][2]

NoOwnOffset ==
    \A i \in 1..Len(snap) : scene.offsetParentMatrix[snap[i][1]] = kIdentity

IsAncestor(a, n) == a # 0 /\ (parent[n] = a \/ (parent[n] # 0 /\ parent[parent[n]] = a))

\* every entry comes after the entries of the captured ancestors of its node
AncestorsFirst(children) ==
    \A i, j \in 1..Len(children) :
        IsAncestor(children[i][1], children[j][1]) => i < j

InitCopy ==
    /\ scene \in {[WithPose(BaseScene, 4, pose) EXCEPT
                      !.rotateOrder[4] = order, !.rotateOrder[5] = order,
                      !.offsetParentMatrix[4] = offset4, !.offsetParentMatrix[5] = offset5] :
                  pose \in Poses, order \in RotateOrders, offset4 \in Offsets, offset5 \in Offsets}
    /\ hist = <<>>
    /\ snap = <<>>
    /\ steps = 0
    /\ args = <<>>
    /\ ret = <<>>

\* copyTransform(copyFrom, copyTo, **kwargs): the TypeError is raised when
\* neither path is valid; with one invalid path the MFnTransform made from
\* it raises before any plug is written
CopyTransform(copyFrom, copyTo, kwargs) ==
    /\ hist = <<>>
    /\ scene' = IF isValid(scene, copyFrom) /\ isValid(scene, copyTo)
                THEN copyTransform(scene, copyFrom, copyTo, kwargs)
                ELSE scene
    /\ hist' = Push(Call("copyTransform", <<copyFrom, copyTo, kwargs>>, scene,
                         ~(isValid(scene, copyFrom) /\ isValid(scene, copyTo))))
    /\ steps' = steps + 1
    /\ UNCHANGED <<snap, args, ret>>

NextCopy ==
    \E copyFrom \in {0, 3, 4, 5}, copyTo \in {0, 3, 4, 5}, kwargs \in {{}, {"skipScale"}} :
        CopyTransform(copyFrom, copyTo, kwargs)

SpecCopy == InitCopy /\ [][NextCopy]_vars

Translations == {<<0, 0, 0, 1>>, <<1, 2, 3, 1>>, <<-1, 0, 1, 2>>}
Scales == {<<1, 1, 1, 1>>, <<2, 2, 2, 1>>, <<1, 2, 3, 1>>, <<1, 3, 1, 2>>}

InitDecompose ==
    /\ scene = BaseScene
    /\ hist = <<>>
    /\ snap = <<>>
    /\ steps = 0
    /\ args \in {[t |-> t, r |-> r, s |-> s] :
                    t \in Translations, r \in UNION {Eulers(order) : order \in RotateOrders},
                    s \in Scales}
    /\ ret = <<>>

\* decomposeMatrix(rotate * translate * scale, order)
DecomposeRotateTranslateScale ==
    /\ ret = <<>>
    /\ ret' = [of |-> "rotate * translate * scale",
               value |-> decomposeMatrix(
                   Mul(Mul(createRotationMatrix(args.r), createTranslateMatrix(args.t)),
                       createScaleMatrix(args.s)),
                   args.r.order)]
    /\ steps' = steps + 1
    /\ UNCHANGED <<scene, hist, snap, args>>

\* decomposeMatrix(scale * rotate * translate, order)
DecomposeScaleRotateTranslate ==
    /\ ret = <<>>
    /\ ret' = [of |-> "scale * rotate * translate",
               value |-> decomposeMatrix(
                   Mul(Mul(createScaleMatrix(args.s), createRotationMatrix(args.r)),
                       createTranslateMatrix(args.t)),
                   args.r.order)]
    /\ steps' = steps + 1
    /\ UNCHANGED <<scene, hist, snap, args>>

NextDecompose == DecomposeRotateTranslateScale \/ DecomposeScaleRotateTranslate

SpecDecompose == InitDecompose /\ [][NextDecompose]_vars

Decomposed(of) == ret # <<>> /\ ret.of = of

\* C9: decomposeMatrix of createRotationMatrix(r) * createTranslateMatrix(t)
\* * createScaleMatrix(s), with the order of r, returns t and s; so it does
\* for t = (1, 2, 3), r = (0, 0, 0) in XYZ, s = (2, 2, 2).
C9_DecomposeRotateTranslateScale ==
    Decomposed("rotate * translate * scale") =>
        /\ ret.value[1] = args.t
        /\ ret.value[3] = args.s

\* C9, amended: decomposeMatrix of createScaleMatrix(s) *
\* createRotationMatrix(r) * createTranslateMatrix(t), with the order of r
\* and positive scale components, returns t and s, and an euler rotation in
\* the order of r that denotes the rotation of r.
C9_DecomposeScaleRotateTranslate ==
    Decomposed("scale * rotate * translate") =>
        /\ ret.value[1] = args.t
        /\ ret.value[3] = args.s
        /\ ret.value[2].order = args.r.order
        /\ createRotationMatrix(ret.value[2]) = createRotationMatrix(args.r)

\* a translated, rotated and unevenly scaled triple came back, its euler
\* angles as other angles of the same rotation
C9_Witness ==
    /\ Decomposed("scale * rotate * translate")
    /\ args.t = <<-1, 0, 1, 2>>
    /\ args.s = <<1, 2, 3, 1>>
    /\ args.r.order = kYXZ
    /\ ret.value[2] # args.r
    /\ ret.value[1] = args.t
    /\ ret.value[3] = args.s

\* -------------------------------------------------------- createAimMatrix
\* Forward and up vectors, among them parallel pairs and pairs that are
\* neither parallel nor perpendicular, with every axis pair and sign.
AimVectors == {<<1, 0, 0, 1>>, <<0, 2, 0, 1>>, <<0, 0, -1, 1>>, <<3, 4, 0, 1>>, <<-4, 3, 0, 2>>}

InitAim ==
    /\ scene = BaseScene
    /\ hist = <<>>
    /\ snap = <<>>
    /\ steps = 0
    /\ args \in {[forwardAxis |-> fa, forwardVector |-> fv, upAxis |-> ua, upVector |-> uv,
                   startPoint |-> p, forwardAxisSign |-> fs, upAxisSign |-> us] :
                    fa \in 0..3, fv \in AimVectors, ua \in 0..2, uv \in AimVectors,
                    p \in {kZeroVector, <<1, 2, 3, 1>>}, fs \in {1, -1}, us \in {1, -1}}
    /\ ret = <<>>

CreateAimMatrix ==
    /\ ret = <<>>
    /\ ret' = [of |-> "createAimMatrix",
               value |-> createAimMatrix(args.forwardAxis, args.forwardVector, args.upAxis,
                                         args.upVector, args.startPoint, args.forwardAxisSign,
                                         args.upAxisSign)]
    /\ steps' = steps + 1
    /\ UNCHANGED <<scene, hist, snap, args>>

NextAim == CreateAimMatrix

SpecAim == InitAim /\ [][NextAim]_vars

\* createAimMatrix returned a matrix
Aimed == ret # <<>> /\ ret.of = "createAimMatrix" /\ ret.value # "TypeError"

\* rows 1 to 3 of a matrix are unit vectors orthogonal to each other
Orthonormal(m) ==
    \A i, j \in 1..3 :
        m[i][1] * m[j][1] + m[i][2] * m[j][2] + m[i][3] * m[j][3]
            = IF i = j THEN m[4][4] * m[4][4] ELSE 0

Parallel(a, b) == Cross(a, b) = kZeroVector

\* C10: for every valid pair of axes, every signs and every nonzero forward
\* and up vectors, parallel ones included, the three axis rows of the matrix
\* createAimMatrix returns are unit vectors orthogonal to each other.
C10_AimRowsOrthonormal == Aimed => Orthonormal(ret.value)

\* C10, amended: so they are when the forward and up vectors are not
\* parallel to each other.
C10_AimRowsOrthonormalUnlessParallel ==
    (Aimed /\ ~Parallel(args.forwardVector, args.upVector)) => Orthonormal(ret.value)

\* an aim matrix from a forward and an up vector that are neither parallel
\* nor perpendicular, with a negative forward sign and a start point
C10_Witness ==
    /\ Aimed
    /\ ~Parallel(args.forwardVector, args.upVector)
    /\ Dot(args.forwardVector, args.upVector) # 0
    /\ args.forwardAxis = 2
    /\ args.upAxis = 0
    /\ args.forwardAxisSign = -1
    /\ args.startPoint # kZeroVector
    /\ Orthonormal(ret.value)
    /\ ret.value # kIdentity

\* ------------------------------------------------------ write operations
\* A caller makes one call of a function that writes channels.  Channels
\* of the nodes written may be locked, and a node may have been deleted
\* beforehand, which leaves the caller with an invalid path.
LockSets ==
    {{}, {"translateX"}, {"rotateY", "scaleZ"},
     {"translateY", "translateZ", "rotateX", "rotateZ", "scaleX", "scaleY"}}

\* keyword arguments of a call: none, one flag of each axis, a whole group
Keywords ==
    {{}, {"skipTranslateX"}, {"skipTranslateY"}, {"skipTranslateZ"},
     {"skipRotateX"}, {"skipRotateY"}, {"skipRotateZ"},
     {"skipScaleX"}, {"skipScaleY"}, {"skipScaleZ"},
     {"skipTranslate"}, {"skipRotateZ", "skipScale"}}

\* the matrix scale * rotate * translate of a pose, under a rotation order
PoseMatrix(pose, order) ==
    Mul(Mul(createScaleMatrix(pose.s),
            createRotationMatrix(MEulerRotation(pose.r[1], pose.r[2], pose.r[3], order))),
        createTranslateMatrix(pose.t))

\* second arguments of applyTransformMatrix: shear-free affine matrices
Matrices == {PoseMatrix(pose, kXYZ) : pose \in Poses}

InitWrite ==
    /\ scene \in {[WithPose(WithPose(BaseScene, 2, pose), 4, pose) EXCEPT
                      !.isLocked[2] = locks, !.isLocked[3] = locks,
                      !.isLocked[4] = locks, !.isLocked[5] = locks,
                      !.rotateOrder[3] = kYZX, !.rotateOrder[4] = kZYX,
                      !.offsetParentMatrix[2] = offset, !.offsetParentMatrix[3] = offset,
                      !.offsetParentMatrix[4] = offset] :
                  pose \in Poses, locks \in LockSets, offset \in Offsets}
    /\ hist = <<>>
    /\ snap = <<>>
    /\ steps = 0
    /\ args = <<>>
    /\ ret = <<>>

\* a node is deleted before the call
WriteDeleteNode(dependNode) ==
    /\ hist = <<>>
    /\ scene' = deleteNode(scene, dependNode)
    /\ hist' = Push(Call("deleteNode", <<dependNode>>, scene, FALSE))
    /\ steps' = steps + 1
    /\ UNCHANGED <<snap, args, ret>>

\* no call was made yet, but for the deletion
WriteReady == IF hist = <<>> THEN TRUE ELSE Len(hist) = 1 /\ hist[1].op = "deleteNode"

\* the call is recorded with the exception it left with, if any
Written(op, a) ==
    /\ hist' = Push(Call(op, a, scene, scene'.error # ""))
    /\ steps' = steps + 1
    /\ UNCHANGED <<snap, args, ret>>

WriteSetTranslation(dagPath, value, kwargs) ==
    /\ WriteReady
    /\ scene' = IF isValid(scene, dagPath)
                THEN setTranslation(scene, dagPath, value, kwargs)
                ELSE raise(scene, "TypeError")
    /\ Written("setTranslation", <<dagPath, value, kwargs>>)

WriteSetEulerRotation(dagPath, value, kwargs) ==
    /\ WriteReady
    /\ scene' = IF isValid(scene, dagPath)
                THEN setEulerRotation(scene, dagPath,
                         MEulerRotation(value[1], value[2], value[3],
                                        getRotationOrder(scene, dagPath)), kwargs)
                ELSE raise(scene, "TypeError")
    /\ Written("setEulerRotation", <<dagPath, value, kwargs>>)

WriteSetScale(dagPath, value, kwargs) ==
    /\ WriteReady
    /\ scene' = IF isValid(scene, dagPath)
                THEN setScale(scene, dagPath, value, kwargs)
                ELSE raise(scene, "TypeError")
    /\ Written("setScale", <<dagPath, value, kwargs>>)

WriteResetTranslation(dagPath) ==
    /\ WriteReady
    /\ scene' = IF isValid(scene, dagPath)
                THEN resetTranslation(scene, dagPath)
                ELSE raise(scene, "TypeError")
    /\ Written("resetTranslation", <<dagPath>>)

WriteResetEulerRotation(dagPath) ==
    /\ WriteReady
    /\ scene' = IF isValid(scene, dagPath)
                THEN resetEulerRotation(scene, dagPath)
                ELSE raise(scene, "TypeError")
    /\ Written("resetEulerRotation", <<dagPath>>)

WriteResetScale(dagPath) ==
    /\ WriteReady
    /\ scene' = IF isValid(scene, dagPath)
                THEN resetScale(scene, dagPath)
                ELSE raise(scene, "TypeError")
    /\ Written("resetScale", <<dagPath>>)

WriteApplyTransformMatrix(dagPath, matrix, kwargs) ==
    /\ WriteReady
    /\ scene' = applyTransformMatrix(scene, dagPath, matrix, kwargs)
    /\ Written("applyTransformMatrix", <<dagPath, matrix, kwargs>>)

WriteCopyTransform(copyFrom, copyTo, kwargs) ==
    /\ WriteReady
    /\ scene' = copyTransform(scene, copyFrom, copyTo, kwargs)
    /\ Written("copyTransform", <<copyFrom, copyTo, kwargs>>)

WriteFreezeTransform(dagPath, includeTranslate, includeRotate, includeScale) ==
    /\ WriteReady
    /\ scene' = IF isValid(scene, dagPath)
                THEN freezeTransform(scene, dagPath, includeTranslate, includeRotate, includeScale)
                ELSE raise(scene, "TypeError")
    /\ Written("freezeTransform", <<dagPath, includeTranslate, includeRotate, includeScale>>)

WriteUnfreezeTransform(dagPath) ==
    /\ WriteReady
    /\ scene' = IF isValid(scene, dagPath)
                THEN unfreezeTransform(scene, dagPath)
                ELSE raise(scene, "TypeError")
    /\ Written("unfreezeTransform", <<dagPath>>)

\* freezeScale is called with the scale of the node, as freezeTransform
\* calls it
WriteFreezeScale(dagPath) ==
    /\ WriteReady
    /\ scene' = IF isValid(scene, dagPath)
                THEN freezeScale(scene, dagPath, getScale(scene, dagPath))
                ELSE raise(scene, "TypeError")
    /\ Written("freezeScale", <<dagPath, scene.scale[dagPath]>>)

NextWrite ==
    \/ \E dependNode \in {4} : WriteDeleteNode(dependNode)
    \/ \E dagPath \in {2, 3, 4}, kwargs \in Keywords :
          WriteSetTranslation(dagPath, <<3, 4, 5, 1>>, kwargs)
    \/ \E dagPath \in {2, 3, 4}, kwargs \in Keywords :
          WriteSetEulerRotation(dagPath, <<2, 3, 2>>, kwargs)
    \/ \E dagPath \in {2, 3, 4}, kwargs \in Keywords :
          WriteSetScale(dagPath, <<4, 5, 6, 1>>, kwargs)
    \/ \E dagPath \in {2, 3, 4} : WriteResetTranslation(dagPath)
    \/ \E dagPath \in {2, 3, 4} : WriteResetEulerRotation(dagPath)
    \/ \E dagPath \in {2, 3, 4} : WriteResetScale(dagPath)
    \/ \E dagPath \in {2, 3, 4}, kwargs \in Keywords,
          matrix \in Matrices \cup {<<1, 0, 0, 0, 0, 1, 0, 0, 0, 0, 1, 0, 0, 0, 0, 1>>} :
          WriteApplyTransformMatrix(dagPath, matrix, kwargs)
    \/ \E copyFrom \in {3, 4, 5}, copyTo \in {3, 4, 5}, kwargs \in Keywords :
          WriteCopyTransform(copyFrom, copyTo, kwargs)
    \/ \E dagPath \in {2, 3, 4}, includeTranslate \in BOOLEAN, includeRotate \in BOOLEAN,
          includeScale \in BOOLEAN :
          WriteFreezeTransform(dagPath, includeTranslate, includeRotate, includeScale)
    \/ \E dagPath \in {2, 3, 4} : WriteUnfreezeTransform(dagPath)
    \/ \E dagPath \in {2, 3, 4} : WriteFreezeScale(dagPath)

SpecWrite == InitWrite /\ [][NextWrite]_vars

Axes == <<"X", "Y", "Z">>

\* the same value on one axis of two vectors
AxisEq(a, b, i) == a[i] * b[4] = b[i] * a[4]

\* the functions that write translate, rotate or scale channels
WriteOps ==
    {"setTranslation", "setEulerRotation", "setScale", "resetTranslation",
     "resetEulerRotation", "resetScale", "applyTransformMatrix", "copyTransform",
     "freezeTransform", "unfreezeTransform", "freezeScale"}

\* the dag paths a call was given
CallPaths(c) == IF c.op = "copyTransform" THEN {c.args[1], c.args[2]} ELSE {c.args[1]}

\* a call of a writing function on valid paths and, where it takes one,
\* with a matrix
ValidCall(c) ==
    /\ c.op \in WriteOps
    /\ \A dagPath \in CallPaths(c) : isValid(c.before, dagPath)
    /\ c.op = "applyTransformMatrix" => isMMatrix(c.args[2])

IsLocked(dag, node, plug, i) == (plug \o Axes[i]) \in dag.isLocked[node]

\* the skip flag of an axis, or of its whole group, is among the keywords
Flagged(kwargs, group, i) == (group \o Axes[i]) \in kwargs \/ group \in kwargs

\* an axis neither skipped nor locked
Writable(dag, node, kwargs, group, plug, i) ==
    ~Flagged(kwargs, group, i) /\ ~IsLocked(dag, node, plug, i)

\* every axis locked before the call has the value it had
LockedAxesKept(before, after) ==
    \A node \in Nodes, i \in 1..3 :
        /\ IsLocked(before, node, "translate", i) =>
              AxisEq(after.translate[node], before.translate[node], i)
        /\ IsLocked(before, node, "rotate", i) => after.rotate[node][i] = before.rotate[node][i]
        /\ IsLocked(before, node, "scale", i) =>
              AxisEq(after.scale[node], before.scale[node], i)

\* the value a setter or a reset helper was to write
ValueToWrite(c) ==
    CASE c.op \in {"setTranslation", "setEulerRotation", "setScale"} -> c.args[2]
      [] c.op = "resetTranslation" -> kZeroVector
      [] c.op = "resetEulerRotation" -> <<0, 0, 0>>
      [] c.op = "resetScale" -> kOneVector

\* every axis of the call's group that is neither locked nor skipped has
\* the value the setter or reset helper was given
UnlockedAxesWritten(c, after) ==
    LET node == c.args[1]
        kwargs == IF Len(c.args) = 3 THEN c.args[3] ELSE {}
    IN  \A i \in 1..3 :
            /\ (c.op \in {"setTranslation", "resetTranslation"}
                  /\ Writable(c.before, node, kwargs, "skipTranslate", "translate", i))
               => AxisEq(after.translate[node], ValueToWrite(c), i)
            /\ (c.op \in {"setEulerRotation", "resetEulerRotation"}
                  /\ Writable(c.before, node, kwargs, "skipRotate", "rotate", i))
               => after.rotate[node][i] = ValueToWrite(c)[i]
            /\ (c.op \in {"setScale", "resetScale"}
                  /\ Writable(c.before, node, kwargs, "skipScale", "scale", i))
               => AxisEq(after.scale[node], ValueToWrite(c), i)

\* C11: a locked translate, rotate or scale axis keeps its value through
\* every function that writes channels (the setters, the reset helpers,
\* applyTransformMatrix, copyTransform, freezeTransform, unfreezeTransform,
\* freezeScale); the call does not raise because of the lock, and the
\* unlocked axes of the same call are still written.
C11_LockedAxesKeepValue ==
    (hist # <<>> /\ ValidCall(hist[1])) =>
        /\ ~hist[1].raised
        /\ LockedAxesKept(hist[1].before, scene)
        /\ UnlockedAxesWritten(hist[1], scene)

\* a setTranslation on a node whose translateX alone is locked: X is kept
\* while Y and Z take the value given
C11_Witness ==
    /\ hist # <<>>
    /\ hist[1].op = "setTranslation"
    /\ hist[1].args = <<4, <<3, 4, 5, 1>>, {}>>
    /\ hist[1].before.isLocked[4] = {"translateX"}
    /\ ~hist[1].raised
    /\ AxisEq(scene.translate[4], hist[1].before.translate[4], 1)
    /\ ~AxisEq(scene.translate[4], <<3, 4, 5, 1>>, 1)
    /\ AxisEq(scene.translate[4], <<3, 4, 5, 1>>, 2)
    /\ AxisEq(scene.translate[4], <<3, 4, 5, 1>>, 3)

\* the values applyTransformMatrix takes off a matrix for a node: the
\* decomposition under the node's rotation order, the rotation being taken
\* once the joint orientation of a joint is removed from it
DecomposedFor(dag, node, matrix) ==
    LET trs == decomposeMatrix(matrix, getRotationOrder(dag, node))
    IN  IF hasFn(dag, node, "kJoint")
        THEN <<trs[1],
               decomposeMatrix(Mul(MTransformationMatrix(matrix).rotationMatrix,
                                   EulerInverseMatrix(getJointOrient(dag, node))),
                               getRotationOrder(dag, node))[2],
               trs[3]>>
        ELSE trs

\* the matrix copyTransform hands to applyTransformMatrix
CopiedMatrix(dag, copyFrom, copyTo) ==
    Mul(Mul(Matrix(dag, copyFrom), exclusiveMatrix(dag, copyFrom)),
        exclusiveMatrixInverse(dag, copyTo))

\* the node written and the matrix applied by a call of applyTransformMatrix
\* or of copyTransform
Applied(c) ==
    IF c.op = "copyTransform"
    THEN <<c.args[2], CopiedMatrix(c.before, c.args[1], c.args[2])>>
    ELSE <<c.args[1], c.args[2]>>

\* on the node written, an axis whose skip flag is set has the value it
\* had, and an axis neither skipped nor locked has the value decomposed
SkippedKeptOthersWritten(before, after, node, trs, kwargs) ==
    \A i \in 1..3 :
        /\ AxisEq(after.translate[node],
                  IF Writable(before, node, kwargs, "skipTranslate", "translate", i)
                  THEN trs[1] ELSE before.translate[node], i)
        /\ after.rotate[node][i] =
              IF Writable(before, node, kwargs, "skipRotate", "rotate", i)
              THEN <<trs[2].x, trs[2].y, trs[2].z>>[i] ELSE before.rotate[node][i]
        /\ AxisEq(after.scale[node],
                  IF Writable(before, node, kwargs, "skipScale", "scale", i)
                  THEN trs[3] ELSE before.scale[node], i)
        /\ Flagged(kwargs, "skipTranslate", i) =>
              AxisEq(after.translate[node], before.translate[node], i)
        /\ Flagged(kwargs, "skipRotate", i) => after.rotate[node][i] = before.rotate[node][i]
        /\ Flagged(kwargs, "skipScale", i) =>
              AxisEq(after.scale[node], before.scale[node], i)

\* C12: applyTransformMatrix, and copyTransform which forwards its options
\* to it, leaves unchanged every axis whose skip flag (skipTranslateX/Y/Z,
\* skipRotateX/Y/Z, skipScaleX/Y/Z) is set, and writes the decomposed value
\* to every axis that is neither skipped nor locked.
C12_SkippedAxesKept ==
    (hist # <<>> /\ ValidCall(hist[1]) /\ hist[1].op \in {"applyTransformMatrix", "copyTransform"})
        => SkippedKeptOthersWritten(hist[1].before, scene, Applied(hist[1])[1],
               DecomposedFor(hist[1].before, Applied(hist[1])[1], Applied(hist[1])[2]),
               hist[1].args[3])

\* an applyTransformMatrix with skipTranslateX on a node without locks:
\* translateX stays off the decomposed value, translateY and translateZ
\* take it, and so do rotate and scale, which were different before
C12_Witness ==
    /\ hist # <<>>
    /\ hist[1].op = "applyTransformMatrix"
    /\ ValidCall(hist[1])
    /\ hist[1].args[3] = {"skipTranslateX"}
    /\ hist[1].before.isLocked[hist[1].args[1]] = {}
    /\ ~AxisEq(scene.translate[hist[1].args[1]], hist[1].args[2][4], 1)
    /\ AxisEq(scene.translate[hist[1].args[1]], hist[1].args[2][4], 2)
    /\ ~AxisEq(hist[1].before.translate[hist[1].args[1]], hist[1].args[2][4], 2)
    /\ scene.rotate[hist[1].args[1]] # hist[1].before.rotate[hist[1].args[1]]
    /\ scene.scale[hist[1].args[1]] # hist[1].before.scale[hist[1].args[1]]

\* every node below a node, of any kind
AllBelow(dag, node) ==
    LET found == iterDescendants(dag, node, "kDagNode")
    IN  {found[i] : i \in 1..Len(found)}

\* where a node shows in the world: the origin of its transform, its
\* control points or vertices, and its locator position
WorldPoints(dag, node) ==
    [origin |-> PointMul(<<0, 0, 0, 1>>, inclusiveMatrix(dag, node)),
     points |-> ScalePoints(dag.controlPoints[node], inclusiveMatrix(dag, node)),
     position |-> PointMul(dag.localPosition[node], inclusiveMatrix(dag, node))]

\* the latest call was freezeScale(root, s), s the scale root had, in a
\* scene where no channel is locked
FrozeScale(root) ==
    /\ hist # <<>>
    /\ hist[1].op = "freezeScale"
    /\ hist[1].args[1] = root
    /\ ValidCall(hist[1])
    /\ \A node \in Nodes : Unlocked(hist[1].before, node)

\* C13: after freezeScale(root, s) with nonzero scale components, the
\* world-space position of the origin of every descendant transform and of
\* every control point, vertex and locator position below root is the same
\* as before the call, at any depth and for non-uniform s.
C13_FreezeScaleKeepsWorldPositions ==
    \A root \in {2, 3, 4} :
        FrozeScale(root) =>
            \A node \in AllBelow(hist[1].before, root) :
                WorldPoints(scene, node) = WorldPoints(hist[1].before, node)

\* C14: freezeScale(root, s) multiplies by the scale matrix the control
\* points of every curve descendant, the vertex positions of every mesh
\* descendant and the localPosition and localScale of every locator
\* descendant of root, in addition to the local translation of every
\* transform descendant.
C14_FreezeScaleScalesGeometry ==
    \A root \in {2, 3, 4} :
        FrozeScale(root) =>
            \A node \in AllBelow(hist[1].before, root) :
                /\ hasFn(scene, node, "kTransform") =>
                      scene.translate[node] =
                         VecMul(hist[1].before.translate[node], createScaleMatrix(hist[1].args[2]))
                /\ (hasFn(scene, node, "kNurbsCurve") \/ hasFn(scene, node, "kMesh")) =>
                      scene.controlPoints[node] =
                         ScalePoints(hist[1].before.controlPoints[node],
                                     createScaleMatrix(hist[1].args[2]))
                /\ hasFn(scene, node, "kLocator") =>
                      /\ scene.localPosition[node] =
                            VecMul(hist[1].before.localPosition[node],
                                   createScaleMatrix(hist[1].args[2]))
                      /\ scene.localScale[node] =
                            VecMul(hist[1].before.localScale[node],
                                   createScaleMatrix(hist[1].args[2]))

\* the kinds freezeScale has a branch for
BakedKinds == {"kTransform", "kJoint", "kNurbsCurve", "kNurbsSurface", "kLocator", "kMesh"}

\* C15: during freezeScale a descendant of an unsupported kind is skipped
\* with a non-fatal warning and no exception escapes: the remaining
\* descendants are still processed and the scale of root is reset.
C15_UnsupportedKindWarned ==
    \A root \in {2, 3, 4} :
        (FrozeScale(root) /\ \E node \in AllBelow(hist[1].before, root) :
                                 scene.apiType[node] \notin BakedKinds) =>
            /\ ~hist[1].raised
            /\ scene.warnings # <<>>
            /\ scene.scale[root] = kOneVector
            /\ \A node \in Descendants(hist[1].before, root) :
                  scene.translate[node] =
                     VecMul(hist[1].before.translate[node], createScaleMatrix(hist[1].args[2]))

\* the latest call was a copyTransform with a deleted source or a deleted
\* target, or an applyTransformMatrix on a deleted node or with a second
\* argument that is not a matrix
BadArguments ==
    /\ hist # <<>>
    /\ \/ /\ hist[1].op = "copyTransform"
          /\ ~(hist[1].before.isAlive[hist[1].args[1]] /\ hist[1].before.isAlive[hist[1].args[2]])
       \/ /\ hist[1].op = "applyTransformMatrix"
          /\ ~(hist[1].before.isAlive[hist[1].args[1]] /\ Len(hist[1].args[2]) = 4)

\* the call raised, and every plug of every node is as it was
RaisedBeforeAnyWrite ==
    /\ hist[1].raised
    /\ scene.error # ""
    /\ [scene EXCEPT !.error = ""] = hist[1].before

C17_AppliedMatrixRecomposes ==
    (/\ hist # <<>>
     /\ hist[1].op = "applyTransformMatrix"
     /\ ValidCall(hist[1])
     /\ hist[1].args[3] = {}
     /\ ~hasFn(hist[1].before, hist[1].args[1], "kJoint")
     /\ Unlocked(hist[1].before, hist[1].args[1]))
    => /\ Matrix(scene, hist[1].args[1]) = hist[1].args[2]
       /\ <<scene.translate[hist[1].args[1]], getEulerRotation(scene, hist[1].args[1]),
            scene.scale[hist[1].args[1]]>>
          = decomposeMatrix(hist[1].args[2], getRotationOrder(scene, hist[1].args[1]))

\* a matrix with a rotation about two axes and a non-uniform scale applied
\* to node 4, whose rotation order is not the one the matrix was made with
C17_Witness ==
    /\ hist # <<>>
    /\ hist[1].op = "applyTransformMatrix"
    /\ hist[1].args = <<4, PoseMatrix(Pose(<<1, 2, 3, 1>>, <<1, 1, 0>>, <<1, 2, 3, 1>>), kXYZ), {}>>
    /\ Unlocked(hist[1].before, 4)
    /\ getRotationOrder(scene, 4) = kZYX
    /\ scene.rotate[4] # <<1, 1, 0>>
    /\ scene # [hist[1].before EXCEPT !.error = ""]
    /\ Matrix(scene, 4) = hist[1].args[2]

\* row i of a matrix, as a vector
AxisRow(m, i) == NormV(<<m[i][1], m[i][2], m[i][3], m[4][4]>>)

\* x cross y is z, and the determinant of the three axis rows is +1
RightHanded(m) ==
    /\ AxisRow(m, 3) = NormV(<<m[1][2] * m[2][3] - m[1][3] * m[2][2],
                               m[1][3] * m[2][1] - m[1][1] * m[2][3],
                               m[1][1] * m[2][2] - m[1][2] * m[2][1],
                               m[4][4] * m[4][4]>>)
    /\ Det3(m) = m[4][4] * m[4][4] * m[4][4]

\* the row of the forward axis points the way of forwardVector * forwardAxisSign
ForwardRowAimed(m) ==
    AxisRow(m, args.forwardAxis + 1) = Normalize(VScale(args.forwardVector, args.forwardAxisSign))

\* C18: for each of the six valid pairs of forward and up axis and every
\* combination of signs, the basis createAimMatrix returns is right-handed
\* (x cross y = z, determinant +1) and the row of the forward axis is
\* parallel to forwardVector * forwardAxisSign.
C18_AimBasisRightHanded == Aimed => (RightHanded(ret.value) /\ ForwardRowAimed(ret.value))

\* C18, amended: so it is when the forward and up vectors are not parallel
\* to each other; when they are, the row of the forward axis is still
\* parallel to forwardVector * forwardAxisSign.
C18_AimBasisRightHandedUnlessParallel ==
    Aimed => /\ ForwardRowAimed(ret.value)
             /\ ~Parallel(args.forwardVector, args.upVector) => RightHanded(ret.value)

\* an aim matrix with y forward and z up, both signs negative, from two
\* vectors that are neither parallel nor perpendicular
C18_Witness ==
    /\ Aimed
    /\ args.forwardAxis = 1
    /\ args.upAxis = 2
    /\ args.forwardAxisSign = -1
    /\ args.upAxisSign = -1
    /\ ~Parallel(args.forwardVector, args.upVector)
    /\ Dot(args.forwardVector, args.upVector) # 0
    /\ RightHanded(ret.value)
    /\ ForwardRowAimed(ret.value)

\* ------------------------------------------------------ rotation matrix
\* createRotationMatrix is called once on an MEulerRotation whose angles
\* are quarter turns and whose order is one of the six or another number.
InitRotate ==
    /\ scene = BaseScene
    /\ hist = <<>>
    /\ snap = <<>>
    /\ steps = 0
    /\ args \in {MEulerRotation(x, y, z, order) :
                    x \in Quarters, y \in Quarters, z \in Quarters, order \in -1..6}
    /\ ret = <<>>

CreateRotationMatrix ==
    /\ ret = <<>>
    /\ ret' = [of |-> "createRotationMatrix", value |-> createRotationMatrix(args)]
    /\ steps' = steps + 1
    /\ UNCHANGED <<scene, hist, snap, args>>

NextRotate == CreateRotationMatrix

SpecRotate == InitRotate /\ [][NextRotate]_vars

\* the elementary rotations about three axes multiplied in the order given,
\* axes 1, 2, 3 being x, y, z
AxisProduct(value, first, second, third) ==
    LET elementary == <<rotateXMatrix(value), rotateYMatrix(value), rotateZMatrix(value)>>
    IN  Mul(Mul(elementary[first], elementary[second]), elementary[third])

\* the order of the axes each rotation order names
NamedAxes ==
    [order \in RotateOrders |->
        CASE order = kXYZ -> <<1, 2, 3>>
          [] order = kYZX -> <<2, 3, 1>>
          [] order = kZXY -> <<3, 1, 2>>
          [] order = kXZY -> <<1, 3, 2>>
          [] order = kYXZ -> <<2, 1, 3>>
          [] order = kZYX -> <<3, 2, 1>>]

\* C19: createRotationMatrix multiplies the elementary rotations in the
\* order the rotation order names (xyz: Rx*Ry*Rz, yzx: Ry*Rz*Rx, zxy:
\* Rz*Rx*Ry, xzy: Rx*Rz*Ry, yxz: Ry*Rx*Rz, zyx: Rz*Ry*Rx): six products, no
\* two of them the same, and any other order value is an error.
C19_RotationOrderProducts ==
    (ret # <<>> /\ ret.of = "createRotationMatrix") =>
        /\ IF args.order \in RotateOrders
           THEN ret.value = AxisProduct(args, NamedAxes[args.order][1], NamedAxes[args.order][2],
                                        NamedAxes[args.order][3])
           ELSE ret.value = "TypeError"
        /\ \A order \in RotateOrders \ {args.order} :
              \E value \in Eulers(order) :
                  createRotationMatrix(value) # createRotationMatrix([value EXCEPT !.order = args.order])

\* a rotation about three axes under the order yzx, whose matrix is not
\* the one the order xyz gives
C19_Witness ==
    /\ ret # <<>>
    /\ ret.of = "createRotationMatrix"
    /\ args = MEulerRotation(1, 1, 2, kYZX)
    /\ ret.value = AxisProduct(args, 2, 3, 1)
    /\ ret.value # AxisProduct(args, 1, 2, 3)

\* C20: the translate and rotate unfreezeTransform writes depend only on
\* the offset parent matrix and on the translate and rotate channels of the
\* node: with the same offset, translate and rotate it writes the same
\* translate and rotate whatever the scale channel of the node holds.
C20_UnfreezeIgnoresScale ==
    \A node \in {2, 3, 4} :
        (/\ hist # <<>>
         /\ hist[1].op = "unfreezeTransform"
         /\ hist[1].args[1] = node
         /\ ValidCall(hist[1])
         /\ Unlocked(hist[1].before, node))
        => \A scale \in Scales :
              /\ unfreezeTransform([hist[1].before EXCEPT !.scale[node] = scale], node).translate[node]
                    = scene.translate[node]
              /\ unfreezeTransform([hist[1].before EXCEPT !.scale[node] = scale], node).rotate[node]
                    = scene.rotate[node]

\* the node the latest call wrote to
Target(c) == IF c.op = "copyTransform" THEN c.args[2] ELSE c.args[1]

\* the matrix whose rotation the latest call wrote to its node: the one
\* applied by applyTransformMatrix or copyTransform, or the offset parent
\* matrix compounded with the local matrix by unfreezeTransform
MatrixWritten(c) ==
    IF c.op = "unfreezeTransform"
    THEN Mul(c.before.offsetParentMatrix[c.args[1]], Matrix(c.before, c.args[1]))
    ELSE Applied(c)[2]

\* the latest call wrote a rotation taken off a matrix to a joint, none of
\* whose axes was locked or skipped
WroteJointRotation ==
    /\ hist # <<>>
    /\ hist[1].op \in {"applyTransformMatrix", "copyTransform", "unfreezeTransform"}
    /\ ValidCall(hist[1])
    /\ hist[1].before.apiType[Target(hist[1])] = "kJoint"
    /\ Unlocked(hist[1].before, Target(hist[1]))
    /\ hist[1].op = "unfreezeTransform" =>
          hist[1].before.offsetParentMatrix[hist[1].args[1]] # kIdentity
    /\ hist[1].op # "unfreezeTransform" =>
          \A i \in 1..3 : ~Flagged(hist[1].args[3], "skipRotate", i)

\* C21: whenever a rotation derived from a matrix is written to a joint
\* (by applyTransformMatrix, by copyTransform through it, by
\* unfreezeTransform from the offset matrix) the joint orientation is first
\* removed: the rotate written, composed with the joint orientation of the
\* node, is the rotation part of the matrix.
C21_JointOrientRemoved ==
    WroteJointRotation =>
        Mul(RotateMatrixOf(scene, Target(hist[1])),
            createRotationMatrix(getJointOrient(scene, Target(hist[1]))))
          = MTransformationMatrix(MatrixWritten(hist[1])).rotationMatrix

\* ------------------------------------------- offset parent matrix kept
\* A caller starts from nodes never frozen and mixes channel edits with
\* freezeTransform and unfreezeTransform calls on one node.
InitOffset ==
    /\ scene \in {[WithPose(WithPose(BaseScene, 2, pose), 4, pose) EXCEPT
                      !.rotateOrder[2] = order, !.rotateOrder[4] = order,
                      !.isLocked[2] = locks, !.isLocked[4] = locks] :
                  pose \in Poses, order \in {kXYZ, kZXY}, locks \in {{}, {"translateX", "rotateY"}}}
    /\ hist = <<>>
    /\ snap = <<>>
    /\ steps = 0
    /\ args = <<>>
    /\ ret = <<>>

NextOffset ==
    \/ \E dagPath \in FreezeNodes, includeTranslate \in BOOLEAN, includeRotate \in BOOLEAN,
          includeScale \in BOOLEAN :
          FreezeTransform(dagPath, includeTranslate, includeRotate, includeScale)
    \/ \E dagPath \in FreezeNodes : UnfreezeTransform(dagPath)
    \/ \E dagPath \in FreezeNodes : SetTranslation(dagPath, <<0, 2, 0, 1>>)
    \/ \E dagPath \in FreezeNodes : SetEulerRotation(dagPath, <<0, 1, 0>>)
    \/ \E dagPath \in FreezeNodes : SetScale(dagPath, <<1, 2, 1, 1>>)

SpecOffset == InitOffset /\ [][NextOffset]_vars

\* the three axis rows of a matrix are of unit length
UnitRows(m) ==
    \A i \in 1..3 : m[i][1] * m[i][1] + m[i][2] * m[i][2] + m[i][3] * m[i][3] = m[4][4] * m[4][4]

\* C22: starting from an identity offset parent matrix, after any sequence
\* of channel edits, freezeTransform calls with any flags and
\* unfreezeTransform calls, the offset parent matrix holds no scale: the
\* rows of its upper-left 3x3 block are of unit length.
C22_OffsetHoldsNoScale == \A node \in Nodes : UnitRows(scene.offsetParentMatrix[node])

\* a node frozen twice without its scale, the scale still on its channel
\* and the offset a rotation and a translation
C22_Witness ==
    /\ Len(hist) = 2
    /\ hist[1].op = "freezeTransform"
    /\ hist[2].op = "freezeTransform"
    /\ hist[1].args = <<2, TRUE, TRUE, FALSE>>
    /\ hist[1].before.offsetParentMatrix[2] # kIdentity
    /\ scene.scale[2] # kOneVector
    /\ scene.offsetParentMatrix[2] # hist[1].before.offsetParentMatrix[2]
    /\ MTransformationMatrix(scene.offsetParentMatrix[2]).rotationMatrix # kIdentity
    /\ UnitRows(scene.offsetParentMatrix[2])

\* the entries of a snapshot whose node still exists
LiveEntries(dag, children) ==
    LET IsAlive(entry) == dag.isAlive[entry[1]]
    IN  SelectSeq(children, IsAlive)

\* the latest call was assumeSnapshot on a list with the entry of a node
\* deleted since the capture
RestoredAfterDelete ==
    /\ hist # <<>>
    /\ hist[1].op = "assumeSnapshot"
    /\ \E i \in 1..Len(hist[1].args[1]) : ~hist[1].before.isAlive[hist[1].args[1][i][1]]

\* C23: assumeSnapshot checks the handle of each entry for liveness just
\* before using it: the entry of a node deleted after the capture is
\* skipped without error and without any write, and every other, live
\* entry of the same snapshot is still restored.
C23_DeadEntriesSkipped ==
    RestoredAfterDelete =>
        /\ scene.error = ""
        /\ ~hist[1].raised
        /\ \A node \in Nodes :
              ~hist[1].before.isAlive[node] =>
                 /\ scene.translate[node] = hist[1].before.translate[node]
                 /\ scene.rotate[node] = hist[1].before.rotate[node]
                 /\ scene.scale[node] = hist[1].before.scale[node]
        /\ scene = assumeSnapshot(hist[1].before, LiveEntries(hist[1].before, hist[1].args[1]))
        /\ \A i \in 1..Len(hist[1].args[1]) :
              (scene.isAlive[hist[1].args[1][i][1]]
                 /\ \A j \in 1..Len(hist[1].args[1]) :
                       IsAncestor(hist[1].args[1][j][1], hist[1].args[1][i][1]) => j < i)
              => Mul(Matrix(scene, hist[1].args[1][i][1]),
                     exclusiveMatrix(scene, hist[1].args[1][i][1])) = hist[1].args[1][i][2]

\* a restore after the captured node 4 was deleted: its entry is skipped
\* and node 3, moved by a change above it, is written
C23_Witness ==
    /\ RestoredAfterDelete
    /\ hist[1].args[1] = snap
    /\ ~scene.isAlive[4]
    /\ scene.isAlive[3]
    /\ scene.error = ""
    /\ scene.translate[3] # hist[1].before.translate[3]

\* ------------------------------------------------- specification: reads
\* A caller writes a translation, in transform or in world space, or not,
\* and then reads a node: its translation in either space, or all three
\* components with decomposeNode.
ReadNodes == {2, 4}

InitRead ==
    /\ scene \in {[WithPose(WithPose(BaseScene, 2, pose), 4, pose) EXCEPT
                      !.offsetParentMatrix[4] = offset] :
                  pose \in Poses, offset \in Offsets}
    /\ hist = <<>>
    /\ snap = <<>>
    /\ steps = 0
    /\ args = <<>>
    /\ ret = <<>>

ReadSetTranslation(dagPath, value, kwargs) ==
    /\ hist = <<>>
    /\ ret = <<>>
    /\ scene' = setTranslation(scene, dagPath, value, kwargs)
    /\ hist' = Push(Call("setTranslation", <<dagPath, value, kwargs>>, scene, FALSE))
    /\ steps' = steps + 1
    /\ UNCHANGED <<snap, args, ret>>

ReadGetTranslation(dagPath, space) ==
    /\ ret = <<>>
    /\ ret' = [op |-> "getTranslation", args |-> <<dagPath, space>>,
               result |-> Returned(getTranslation(scene, dagPath, space))]
    /\ steps' = steps + 1
    /\ UNCHANGED <<scene, hist, snap, args>>

ReadDecomposeNode(node, space) ==
    /\ ret = <<>>
    /\ ret' = [op |-> "decomposeNode", args |-> <<node, space>>,
               result |-> decomposeNode(scene, node, space)]
    /\ steps' = steps + 1
    /\ UNCHANGED <<scene, hist, snap, args>>

NextRead ==
    \/ \E dagPath \in ReadNodes, value \in {<<3, 4, 5, 1>>, <<0, 0, 0, 1>>},
          kwargs \in {{}, {"spaceWorld"}} : ReadSetTranslation(dagPath, value, kwargs)
    \/ \E dagPath \in ReadNodes, space \in {kTransform, kWorld} : ReadGetTranslation(dagPath, space)
    \/ \E node \in ReadNodes, space \in {kTransform, kWorld} : ReadDecomposeNode(node, space)

SpecRead == InitRead /\ [][NextRead]_vars

\* C24: decomposeNode(node, space) on a valid node returns the translation
\* of the node in the space asked for, its euler rotation and its scale,
\* in transform space and in world space, and raises no error.
C24_DecomposeNodeReturns ==
    (ret # <<>> /\ ret.op = "decomposeNode" /\ scene.isAlive[ret.args[1]]) =>
        /\ ret.result.error = ""
        /\ ret.result.value =
              <<IF ret.args[2] = kWorld
                THEN MTransformationMatrix(inclusiveMatrix(scene, ret.args[1])).translation
                ELSE scene.translate[ret.args[1]],
                MEulerRotation(scene.rotate[ret.args[1]][1], scene.rotate[ret.args[1]][2],
                               scene.rotate[ret.args[1]][3], scene.rotateOrder[ret.args[1]]),
                scene.scale[ret.args[1]]>>

\* a world-space write of the translation was followed by a world-space
\* read of the same node, whose translate channels are not locked
WorldRoundTrip ==
    /\ hist # <<>>
    /\ hist[1].op = "setTranslation"
    /\ "spaceWorld" \in hist[1].args[3]
    /\ ret # <<>>
    /\ ret.op = "getTranslation"
    /\ ret.args = <<hist[1].args[1], kWorld>>
    /\ \A axis \in {"translateX", "translateY", "translateZ"} :
          axis \notin scene.isLocked[hist[1].args[1]]

\* C27: for a node with unlocked translate channels and any parent, one
\* with a translation of its own included, setTranslation(node, p) in world
\* space followed by getTranslation(node) in world space returns p.
C27_WorldTranslationRoundTrip ==
    WorldRoundTrip => ret.result.value = hist[1].args[2]

\* the latest call was unfreezeTransform on a live node with a parent
\* offset matrix other than the identity and no locked channel
Unfroze ==
    /\ hist # <<>>
    /\ hist[1].op = "unfreezeTransform"
    /\ hist[1].before.isAlive[hist[1].args[1]]
    /\ hist[1].before.offsetParentMatrix[hist[1].args[1]] # kIdentity
    /\ hist[1].before.isLocked[hist[1].args[1]] = {}

\* C25: unfreezeTransform leaves the world matrix of the node as it was,
\* for any parent offset matrix other than the identity and any translate,
\* rotate and scale on the channels: the offset is folded into the channels
\* and the node does not move.
C25_UnfreezeKeepsWorldMatrix ==
    Unfroze =>
        /\ scene.offsetParentMatrix[hist[1].args[1]] = kIdentity
        /\ inclusiveMatrix(scene, hist[1].args[1])
             = inclusiveMatrix(hist[1].before, hist[1].args[1])

\* the two latest calls were freezeTransform on the same node with the
\* same flags
FrozeTwice ==
    /\ Len(hist) = 2
    /\ hist[1].op = "freezeTransform"
    /\ hist[2].op = "freezeTransform"
    /\ hist[1].args = hist[2].args
    /\ hist[2].before.isAlive[hist[1].args[1]]

\* the latest call was freezeTransform on a node whose matrix plug was the
\* identity
FrozeAtIdentity ==
    /\ hist # <<>>
    /\ hist[1].op = "freezeTransform"
    /\ hist[1].before.isAlive[hist[1].args[1]]
    /\ Matrix(hist[1].before, hist[1].args[1]) = kIdentity

\* C26: freezeTransform is idempotent: a second call in a row with the same
\* flags leaves the channels of the node, the data of its descendants and
\* the offset parent matrix as the first call left them; a call on a node
\* whose local matrix is the identity changes nothing, whatever the offset
\* parent matrix.
C26_FreezeIdempotent ==
    /\ FrozeTwice => scene = hist[1].before
    /\ FrozeAtIdentity => scene = hist[1].before

\* the latest call was freezeTransform, without the scale, on a live node
\* with a locked translate or rotate axis
FrozeLocked ==
    /\ hist # <<>>
    /\ hist[1].op = "freezeTransform"
    /\ ~hist[1].args[4]
    /\ hist[1].before.isAlive[hist[1].args[1]]
    /\ \E axis \in {"translateX", "translateY", "translateZ", "rotateX", "rotateY", "rotateZ"} :
          axis \in hist[1].before.isLocked[hist[1].args[1]]

\* C29: with a translate or rotate axis of the node locked, freezeTransform
\* still leaves the world matrix of the node as it was: a component that
\* could not be reset on the channels is not added to the offset parent
\* matrix as well.
C29_FreezeLockedKeepsWorldMatrix ==
    FrozeLocked =>
        inclusiveMatrix(scene, hist[1].args[1])
          = inclusiveMatrix(hist[1].before, hist[1].args[1])

\* ------------------------------------------------ the walk of snapshot
\* The generator iterDescendants as snapshot(dagPath) consumes it, step by
\* step: the queue is in args, the children yielded so far in snap.  The
\* scene is the base scene with up to two nodes deleted, subtrees included.
InitWalk ==
    /\ scene \in {BaseScene}
                 \cup {deleteNode(BaseScene, n) : n \in 3..9}
                 \cup {deleteNode(deleteNode(BaseScene, n), m) : n \in 3..9, m \in 3..9}
    /\ hist = <<>>
    /\ snap = <<>>
    /\ steps = 0
    /\ args = <<>>
    /\ ret = <<>>

\* queue = deque([dagPath])
WalkBegin(dagPath) ==
    /\ hist = <<>>
    /\ scene.isAlive[dagPath]
    /\ args' = <<dagPath>>
    /\ hist' = Push(Call("snapshot", <<dagPath>>, scene, FALSE))
    /\ UNCHANGED <<scene, snap, steps, ret>>

\* one turn of the while loop: the head of the queue is popped, each child
\* of the type is appended to the queue and yielded to snapshot
WalkStep ==
    /\ hist # <<>>
    /\ ret = <<>>
    /\ args # <<>>
    /\ args' = Tail(args) \o iterChildren(scene, Head(args), "kTransform")
    /\ snap' = snap \o iterChildren(scene, Head(args), "kTransform")
    /\ UNCHANGED <<scene, hist, steps, ret>>

\* the queue is empty: the generator ends
WalkReturn ==
    /\ hist # <<>>
    /\ ret = <<>>
    /\ args = <<>>
    /\ ret' = [op |-> "snapshot", result |-> Returned(snap)]
    /\ steps' = steps + 1
    /\ UNCHANGED <<scene, hist, snap, args>>

NextWalk ==
    \/ \E dagPath \in 1..5 : WalkBegin(dagPath)
    \/ WalkStep
    \/ WalkReturn

\* the interpreter runs the loop on: no turn is put off for ever
FairWalk == InitWalk /\ [][NextWalk]_vars /\ WF_vars(NextWalk)

RECURSIVE IsBelow(_, _)
IsBelow(a, n) == parent[n] # 0 /\ (parent[n] = a \/ IsBelow(a, parent[n]))

RECURSIVE Depth(_)
Depth(n) == IF parent[n] = 0 THEN 0 ELSE 1 + Depth(parent[n])

\* the live transforms and joints below the root of the walk
TransformsBelow(dag, root) ==
    {n \in Nodes : /\ IsBelow(root, n)
                   /\ dag.isAlive[n]
                   /\ dag.apiType[n] \in {"kTransform", "kJoint"}}

\* the nodes yielded are each transform below the root once and nothing
\* else, no node before one of its ancestors, and level by level; they are
\* the nodes of the entries of snapshot(root), in the same order
ListedOnceAncestorsFirst ==
    LET found == ret.result.value
    IN  /\ {found[i] : i \in 1..Len(found)} = TransformsBelow(scene, hist[1].args[1])
        /\ \A i, j \in 1..Len(found) : found[i] = found[j] => i = j
        /\ \A i, j \in 1..Len(found) : IsBelow(found[i], found[j]) => i < j
        /\ \A i, j \in 1..Len(found) : i < j => Depth(found[i]) <= Depth(found[j])
        /\ Len(snapshot(scene, hist[1].args[1])) = Len(found)
        /\ \A i \in 1..Len(found) : snapshot(scene, hist[1].args[1])[i][1] = found[i]

\* C28: snapshot(root) terminates on a finite tree and lists every
\* transform descendant of root exactly once, each node after all of its
\* ancestors (breadth first), so that assumeSnapshot, which goes through
\* the list in order, restores a parent before its captured descendants.
C28_SnapshotBreadthFirst ==
    /\ [](ret # <<>> => ListedOnceAncestorsFirst)
    /\ <>(ret # <<>>)

\* the walk from node 1 over the whole tree returned: four transforms on
\* three levels, node 5 below node 3
C28_Witness ==
    /\ ret # <<>>
    /\ hist[1].args[1] = 1
    /\ Len(ret.result.value) = 4
    /\ ret.result.value[4] = 5

\* ------------------------------------------- children kept in place
\* A caller applies a matrix to a node, or copies a transform onto it, and
\* asks for the children to be preserved, with skip flags for the node.
NextPreserve ==
    \/ \E dependNode \in {5} : WriteDeleteNode(dependNode)
    \/ \E dagPath \in {2, 3, 4}, matrix \in Matrices,
          kwargs \in {{"preserveChildren"}, {"preserveChildren", "skipTranslate"},
                      {"preserveChildren", "skipRotateY"},
                      {"preserveChildren", "skipTranslateX", "skipScale"},
                      {"preserveChildren", "skipTranslate", "skipRotate", "skipScale"}} :
          WriteApplyTransformMatrix(dagPath, matrix, kwargs)
    \/ \E copyFrom \in {4}, copyTo \in {3},
          kwargs \in {{"preserveChildren"}, {"preserveChildren", "skipRotate"}} :
          WriteCopyTransform(copyFrom, copyTo, kwargs)

SpecPreserve == InitWrite /\ [][NextPreserve]_vars

\* the latest call applied a matrix to a live node with preserveChildren
Preserved ==
    /\ hist # <<>>
    /\ hist[1].op \in {"applyTransformMatrix", "copyTransform"}
    /\ "preserveChildren" \in hist[1].args[3]
    /\ \A dagPath \in CallPaths(hist[1]) : hist[1].before.isAlive[dagPath]

\* C30: the skip flags and the preserveChildren option of
\* applyTransformMatrix are for the target node alone: in the restore of its
\* descendants every unlocked translate, rotate and scale axis of each
\* descendant is written, whatever skip flags the caller gave, and the
\* descendants are restored from the one snapshot taken of the target.
C30_FlagsForTargetOnly ==
    Preserved =>
        /\ SkippedKeptOthersWritten(hist[1].before, scene, Target(hist[1]),
               DecomposedFor(hist[1].before, Target(hist[1]), Applied(hist[1])[2]),
               hist[1].args[3])
        /\ \A child \in TransformsBelow(hist[1].before, Target(hist[1])) :
               SkippedKeptOthersWritten(hist[1].before, scene, child,
                   DecomposedFor(scene, child,
                       Mul(inclusiveMatrix(hist[1].before, child),
                           exclusiveMatrixInverse(scene, child))),
                   {})
        /\ \A node \in Nodes :
               (node # Target(hist[1]) /\ ~IsBelow(Target(hist[1]), node)) =>
                  /\ scene.translate[node] = hist[1].before.translate[node]
                  /\ scene.rotate[node] = hist[1].before.rotate[node]
                  /\ scene.scale[node] = hist[1].before.scale[node]

\* a matrix applied to node 2 with preserveChildren and skipTranslate, no
\* channel locked: the translate of node 2 is kept while the translate of
\* its child node 4 is written
C30_Witness ==
    /\ Preserved
    /\ hist[1].op = "applyTransformMatrix"
    /\ hist[1].args[1] = 2
    /\ hist[1].args[3] = {"preserveChildren", "skipTranslate"}
    /\ hist[1].before.isLocked[4] = {}
    /\ scene.translate[2] = hist[1].before.translate[2]
    /\ scene.rotate[2] # hist[1].before.rotate[2]
    /\ scene.translate[4] # hist[1].before.translate[4]

====
